---- MODULE Spec2Model ----
(***************************************************************************)
(* Cart store, checkout workflow, order service and inventory adjustment   *)
(* of the storefront application, the admin screens for inventory,         *)
(* products and orders, the connectivity listeners, the auth context and   *)
(* the customer screens that reload after an outage.                       *)
(*                                                                         *)
(* Amounts (price, totalAmount) are counted in hundredths of the currency  *)
(* unit, so the 0.01 tolerance of createOrder is Tolerance = 1.            *)
(* Time (new Date(), collectionDate) is a natural number of half days:      *)
(* even values are the morning (AM) and odd values the afternoon (PM) of   *)
(* a day.                                                                  *)
(***************************************************************************)
EXTENDS Integers, Sequences, FiniteSets, TLC

\* ------------------------------------------------------------------ bounds
MaxQty == 2        \* largest quantity a cart line is driven to
MaxStock == 2      \* largest initial inventory quantity
MaxTime == 1       \* last clock value
MaxOrders == 1     \* order documents the backend is driven to hold
MaxAdminCalls == 2 \* admin handlers that reach a service call or a dialog
MaxStatusUpdates == 3 \* status updates the backend applies to an order
MaxRefreshes == 2  \* refreshUserData calls awaiting their read
MaxReads == 2      \* reads a screen awaits

\* --------------------------------------------------------- input universes
ProductIds == {"p1", "p2"}
UserIds == {"u1"}
NoUser == "none"
NoDate == 0 - 1
NoTime == <<>>

\* Product objects as the customer screens list them in the app run
Listed ==
  { [id |-> "p1", name |-> "Knife",  imageUrl |-> "k1.png", price |-> 100, inStock |-> TRUE],
    [id |-> "p1", name |-> "Knife",  imageUrl |-> "k1.png", price |-> 100, inStock |-> FALSE],
    [id |-> "p2", name |-> "Fork",   imageUrl |-> "f1.png", price |-> 30,  inStock |-> TRUE] }

\* the cart API is also called with p1 as it reads after an admin edited it
Catalogue ==
  Listed \cup
  { [id |-> "p1", name |-> "Knife2", imageUrl |-> "k2.png", price |-> 250, inStock |-> TRUE] }

\* quantity arguments the cart API is called with
QtyArgs == (0 - 1) .. 2

VARIABLES
  cartItems,       \* CartProvider: useState<CartItem[]>
  totalItems,      \* CartProvider: value of totalItems of the last render
  totalAmount,     \* CartProvider: value of totalAmount of the last render
  lastCall,        \* the last direct call of a cart operation, with its arguments
  collectionDate,  \* Checkout: useState<Date | null>
  collectionTime,  \* Checkout: useState('')
  loading,         \* Checkout: useState(false)
  alert,           \* title of the open Alert.alert dialog of Checkout, or "none"
  now,             \* wall clock, new Date()
  isOffline,       \* AuthProvider: useState(false)
  currentUser,     \* AuthProvider: the signed-in user's id, or NoUser
  orders,          \* backend collection 'orders', in creation order
  inventory,       \* backend collection 'inventory', by document id
  products,        \* backend collection 'products', by document id
  co,              \* the createOrder call in flight (its frame), or IdleFrame
  error,           \* the error createOrder threw to its caller, or "none"
  clearCalls,      \* clearCart() calls of the checkout attempt in progress or
                   \* whose dialog is still open
  serviceCall,     \* the arguments of the last direct call of createOrder
  adm,             \* per admin session: the screen handler / service call in flight
  calls,           \* admin operations started so far
  netInfoConnected, \* NetInfoProvider: useState(true), isConnected
  wasOffline,      \* firebaseConfig: let wasOffline = false
  clients,         \* per other client device: its createOrder call (frame)
  ordersScreen,    \* per admin session: the state of the admin Orders screen
  auth,            \* AuthProvider: currentUser, loading, authError and the
                   \* profile reads in flight
  statusLog,       \* the status updates the backend applied to the order, in order
  screens          \* Category, ProductDetail and Profile: the error state of
                   \* the last read and the reads in flight

cartVars == <<cartItems, totalItems, totalAmount, lastCall, clearCalls>>
checkoutVars == <<collectionDate, collectionTime, loading>>
adminVars == <<adm, calls>>
netVars == <<netInfoConnected, wasOffline>>
sideVars == <<ordersScreen, statusLog, auth, screens>>
envVars ==
  <<now, isOffline, currentUser, serviceCall, adminVars, netVars, clients,
    sideVars>>
backendVars == <<orders, inventory, products>>
vars == <<cartItems, totalItems, totalAmount, lastCall, collectionDate,
          collectionTime, loading, alert, now, isOffline, currentUser,
          orders, inventory, products, co, error, clearCalls, serviceCall,
          adm, calls, netInfoConnected, wasOffline, clients, ordersScreen,
          statusLog, auth, screens>>

\* ------------------------------------------------------------- Cart store
\* prevItems.findIndex(item => item.productId === id); 0 when absent (-1 in JS)
findIndex(items, id) ==
  IF \E i \in 1..Len(items) : items[i].productId = id
    THEN CHOOSE i \in 1..Len(items) :
           /\ items[i].productId = id
           /\ \A j \in 1..(i - 1) : items[j].productId # id
    ELSE 0

\* items.filter(pred)
RECURSIVE filterOut(_, _)
filterOut(items, id) ==
  IF items = <<>> THEN <<>>
  ELSE IF Head(items).productId # id
         THEN <<Head(items)>> \o filterOut(Tail(items), id)
         ELSE filterOut(Tail(items), id)

\* Math.max(a, b)
MathMax(a, b) == IF a >= b THEN a ELSE b

\* an addToCart that never looks for an existing line
addToCartAlwaysAppend(prevItems, product, quantity) ==
  Append(prevItems,
         [productId |-> product.id,
          productName |-> product.name,
          productImage |-> product.imageUrl,
          quantity |-> quantity,
          price |-> product.price])

\* an addToCart that snapshots the product again when it merges
addToCartResnapshot(prevItems, product, quantity) ==
  LET existingItemIndex == findIndex(prevItems, product.id) IN
  IF existingItemIndex > 0
    THEN [prevItems EXCEPT ![existingItemIndex] =
            [productId |-> product.id,
             productName |-> product.name,
             productImage |-> product.imageUrl,
             quantity |-> prevItems[existingItemIndex].quantity + quantity,
             price |-> product.price]]
    ELSE Append(prevItems,
                [productId |-> product.id,
                 productName |-> product.name,
                 productImage |-> product.imageUrl,
                 quantity |-> quantity,
                 price |-> product.price])

\* the updater passed to setCartItems by addToCart
addToCart(prevItems, product, quantity) ==
  LET existingItemIndex == findIndex(prevItems, product.id) IN
  IF existingItemIndex > 0
    THEN [prevItems EXCEPT ![existingItemIndex].quantity = @ + quantity]
    ELSE Append(prevItems,
                [productId |-> product.id,
                 productName |-> product.name,
                 productImage |-> product.imageUrl,
                 quantity |-> quantity,
                 price |-> product.price])

\* a removeFromCart written as splice(findIndex(...), 1): index -1 is the last line
removeFromCartSplice(prevItems, productId) ==
  LET index == findIndex(prevItems, productId)
      at == IF index = 0 THEN Len(prevItems) ELSE index IN
  [i \in 1..(IF Len(prevItems) = 0 THEN 0 ELSE Len(prevItems) - 1) |->
     IF i < at THEN prevItems[i] ELSE prevItems[i + 1]]

\* the updater passed to setCartItems by removeFromCart
removeFromCart(prevItems, productId) == filterOut(prevItems, productId)

\* an updateQuantity without the clamp
updateQuantityNoClamp(prevItems, productId, quantity) ==
  [i \in 1..Len(prevItems) |->
     IF prevItems[i].productId = productId
       THEN [prevItems[i] EXCEPT !.quantity = quantity]
       ELSE prevItems[i]]

\* the updater passed to setCartItems by updateQuantity
updateQuantity(prevItems, productId, quantity) ==
  [i \in 1..Len(prevItems) |->
     IF prevItems[i].productId = productId
       THEN [prevItems[i] EXCEPT !.quantity = MathMax(1, quantity)]
       ELSE prevItems[i]]

\* cartItems.reduce((total, item) => total + item.quantity, 0)
reduceItems(items) ==
  LET f[i \in 0..Len(items)] ==
        IF i = 0 THEN 0 ELSE f[i - 1] + items[i].quantity
  IN f[Len(items)]

\* cartItems.reduce((total, item) => total + item.price * item.quantity, 0)
reduceAmount(items) ==
  LET f[i \in 0..Len(items)] ==
        IF i = 0 THEN 0 ELSE f[i - 1] + items[i].price * items[i].quantity
  IN f[Len(items)]

\* a render that forgets to recompute the totals when the number of lines
\* is unchanged (totals memoised on cartItems.length)
RenderMemoOnLength(newItems) ==
  /\ cartItems' = newItems
  /\ totalItems' = IF Len(newItems) = Len(cartItems)
                     THEN totalItems ELSE reduceItems(newItems)
  /\ totalAmount' = IF Len(newItems) = Len(cartItems)
                      THEN totalAmount ELSE reduceAmount(newItems)

\* setCartItems(newItems) followed by the re-render of CartProvider, which
\* recomputes totalItems and totalAmount from the new cartItems
Render(newItems) ==
  /\ cartItems' = newItems
  /\ totalItems' = reduceItems(newItems)
  /\ totalAmount' = reduceAmount(newItems)

QtyInBounds(items) ==
  \A i \in 1..Len(items) :
    items[i].quantity >= 0 - MaxQty /\ items[i].quantity <= MaxQty

CallRecord(op, product, productId, quantity, index) ==
  [op |-> op, product |-> product, productId |-> productId,
   quantity |-> quantity, existingItemIndex |-> index]

NoProduct == [id |-> "none", name |-> "", imageUrl |-> "", price |-> 0, inStock |-> FALSE]

NoCall == CallRecord("none", NoProduct, "none", 0, 0)

\* ---------------------------------------------- Cart store, called directly
AddToCart ==
  \E product \in Catalogue, quantity \in QtyArgs :
    LET newItems == addToCart(cartItems, product, quantity) IN
    /\ QtyInBounds(newItems)
    /\ Render(newItems)
    /\ lastCall' = CallRecord("addToCart", product, product.id, quantity,
                              findIndex(cartItems, product.id))
    /\ UNCHANGED <<checkoutVars, alert, envVars, backendVars, co, error, clearCalls>>

RemoveFromCart ==
  \E productId \in ProductIds :
    /\ Render(removeFromCart(cartItems, productId))
    /\ lastCall' = CallRecord("removeFromCart", NoProduct, productId, 0,
                              findIndex(cartItems, productId))
    /\ UNCHANGED <<checkoutVars, alert, envVars, backendVars, co, error, clearCalls>>

UpdateQuantity ==
  \E productId \in ProductIds, quantity \in QtyArgs :
    /\ Render(updateQuantity(cartItems, productId, quantity))
    /\ lastCall' = CallRecord("updateQuantity", NoProduct, productId, quantity,
                              findIndex(cartItems, productId))
    /\ UNCHANGED <<checkoutVars, alert, envVars, backendVars, co, error, clearCalls>>

\* clearCart: setCartItems([])
clearCart == <<>>

ClearCart ==
  /\ Render(clearCart)
  /\ lastCall' = CallRecord("clearCart", NoProduct, "none", 0, 0)
  /\ UNCHANGED <<checkoutVars, alert, envVars, backendVars, co, error, clearCalls>>


\* ------------------------------------------------------------ backend state
InvIds == {1, 2, 3}
NoDoc == [productId |-> "none", quantity |-> 0, exists |-> FALSE]
InvDoc(productId, quantity) ==
  [productId |-> productId, quantity |-> quantity, exists |-> TRUE]

\* a product document: the fields the stock logic reads and writes
ProductDoc(inStock) == [exists |-> TRUE, inStock |-> inStock, deleted |-> FALSE]
\* a product id no document was created under yet, and a deleted document
NoProductDoc == [exists |-> FALSE, inStock |-> FALSE, deleted |-> FALSE]
DeletedProductDoc == [exists |-> FALSE, inStock |-> FALSE, deleted |-> TRUE]

\* the inventory document holding each product's stock at the start, when
\* there is one
InvIdOf(productId) == IF productId = "p1" THEN 1 ELSE 2

\* getInventoryByProductId: query where productId == id, docs[0] or null (0)
getInventoryByProductId(inv, productId) ==
  LET hits == {id \in InvIds : inv[id].exists /\ inv[id].productId = productId} IN
  IF hits = {} THEN 0
  ELSE CHOOSE id \in hits : \A other \in hits : id <= other

NoServiceCall == [items |-> <<>>, totalAmount |-> 0 - 1]

\* ------------------------------------------------------------ admin sessions
\* a1 is the admin on this device, a2 an admin on another device
AdminIds == {"a1", "a2"}

\* a screen handler of an admin: the service call it awaits (op, pc; pc is
\* "confirm" while its confirmation dialog is open), the arguments of the
\* call, and the alert the handler ended with
AdminIdle ==
  [pc |-> "idle", op |-> "none", productId |-> "none", quantity |-> 0,
   inStock |-> FALSE, inventoryId |-> 0, alert |-> "none"]

\* ------------------------------------------------------------ other clients
\* devices of customers placing orders at the same time
ClientIds == {"c1", "c2"}

\* the createOrder call of a client: the await it is at (or how it ended),
\* its items, the item adjustInventoryAfterOrder is at, and what the call read
ClientIdle ==
  [pc |-> "idle", items |-> <<>>, i |-> 0, inventoryId |-> 0,
   newQuantity |-> 0]

\* ------------------------------------------------------- createOrder frames
IdleFrame ==
  [pc |-> "idle", caller |-> "none", userId |-> NoUser, items |-> <<>>,
   totalAmount |-> 0, collectionDate |-> NoDate, collectionTime |-> NoTime,
   createdAt |-> 0, orderId |-> 0, i |-> 0, inventoryId |-> 0,
   newQuantity |-> 0, ordersAtCall |-> 0, inventoryAtCall |-> <<>>]

\* 0.01 currency unit, in hundredths
Tolerance == 1

\* Math.abs
MathAbs(x) == IF x < 0 THEN 0 - x ELSE x

\* items.reduce((sum, item) => sum + (item.price * item.quantity), 0)
calculatedTotal(items) ==
  LET f[k \in 0..Len(items)] ==
        IF k = 0 THEN 0 ELSE f[k - 1] + items[k].price * items[k].quantity
  IN f[Len(items)]

\* cartItems.map(item => ({productId, productName, quantity, price}))
orderItemsOf(items) ==
  [k \in 1..Len(items) |->
     [productId |-> items[k].productId,
      productName |-> items[k].productName,
      quantity |-> items[k].quantity,
      price |-> items[k].price]]

\* a document whose items are read from the cart when addDoc runs
orderDataFromCart(frame) ==
  [userId |-> frame.userId,
   items |-> orderItemsOf(cartItems),
   totalAmount |-> totalAmount,
   status |-> "pending",
   createdAt |-> frame.createdAt,
   updatedAt |-> frame.createdAt,
   collectionDate |-> frame.collectionDate,
   collectionTime |-> frame.collectionTime]

\* the document createOrder hands to addDoc
orderData(frame) ==
  [userId |-> frame.userId,
   items |-> frame.items,
   totalAmount |-> frame.totalAmount,
   status |-> "pending",
   createdAt |-> frame.createdAt,
   updatedAt |-> frame.createdAt,
   collectionDate |-> frame.collectionDate,
   collectionTime |-> frame.collectionTime]


\* handlePlaceOrder after `await createOrder(...)` resolved: clearCart(), the
\* success alert, and setLoading(false) of the finally block
Returned(caller) ==
  IF caller = "checkout"
    THEN /\ Render(clearCart)
         /\ clearCalls' = clearCalls + 1
         /\ alert' = "Order Placed Successfully"
         /\ loading' = FALSE
         /\ UNCHANGED <<lastCall, error>>
    ELSE UNCHANGED <<cartVars, alert, loading, error>>

\* a handlePlaceOrder whose finally block also clears the cart
ThrewAndCleared(caller, err) ==
  /\ error' = err
  /\ IF caller = "checkout"
       THEN /\ alert' = "Error"
            /\ loading' = FALSE
            /\ Render(clearCart)
            /\ clearCalls' = clearCalls + 1
            /\ UNCHANGED lastCall
       ELSE UNCHANGED <<alert, loading, cartVars>>

\* createOrder threw err (its catch logs and rethrows); in handlePlaceOrder the
\* catch block shows the generic error alert and finally does setLoading(false)
Threw(caller, err) ==
  /\ error' = err
  /\ IF caller = "checkout"
       THEN /\ alert' = "Error"
            /\ loading' = FALSE
       ELSE UNCHANGED <<alert, loading>>
  /\ UNCHANGED cartVars

\* a total check that forgets Math.abs
totalMismatchSigned(calculated, total) == calculated - total > Tolerance

\* Math.abs(calculatedTotal - totalAmount) > 0.01
totalMismatch(calculated, total) == MathAbs(calculated - total) > Tolerance

\* createOrder, up to its first await: the total check, then addDoc is issued
createOrder(caller, userId, items, total, cDate, cTime) ==
  IF totalMismatch(calculatedTotal(items), total)
    THEN /\ co' = IdleFrame
         /\ Threw(caller, "Order total mismatch")
    ELSE /\ co' = [IdleFrame EXCEPT !.pc = "addDoc", !.caller = caller,
                     !.userId = userId, !.items = items, !.totalAmount = total,
                     !.collectionDate = cDate, !.collectionTime = cTime,
                     !.createdAt = now, !.ordersAtCall = Len(orders),
                     !.inventoryAtCall = inventory]
         /\ error' = "none"
         /\ loading' = IF caller = "checkout" THEN TRUE ELSE loading
         /\ UNCHANGED <<cartVars, alert>>

\* an adjustment that writes the quantity back as it was read
adjustedQuantityKept(held, ordered) == held

\* inventoryItem.quantity - item.quantity
adjustedQuantity(held, ordered) == held - ordered

\* a flag computed with >= instead of >
inStockOfNonNegative(newQuantity) == newQuantity >= 0

\* inStock: newQuantity > 0
inStockOf(newQuantity) == newQuantity > 0

\* an addDoc that resolves without the document having been stored
addDocNotStored(docs, data) == docs

\* an addDoc that writes the document twice
addDocTwice(docs, data) == Append(Append(docs, data), data)

\* addDoc(collection(db, ORDERS_COLLECTION), data)
addDoc(docs, data) == Append(docs, data)

\* a stock check that is off by one
insufficientOffByOne(held, requested) == held + 1 < requested

\* inventoryItem.quantity < item.quantity
insufficient(held, requested) == held < requested

\* addDoc resolved: the order document exists; adjustInventoryAfterOrder starts
\* and issues getInventoryByProductId for the first item
OrderPersisted ==
  /\ co.pc = "addDoc"
  /\ orders' = addDoc(orders, orderData(co))
  /\ UNCHANGED <<inventory, products, collectionDate, collectionTime, envVars>>
  /\ IF Len(co.items) = 0
       THEN /\ co' = IdleFrame
            /\ Returned(co.caller)
       ELSE /\ co' = [co EXCEPT !.pc = "getDocs", !.orderId = Len(orders) + 1, !.i = 1]
            /\ UNCHANGED <<cartVars, alert, loading, error>>

\* addDoc rejected
OrderPersistFailed ==
  /\ co.pc = "addDoc"
  /\ co' = IdleFrame
  /\ Threw(co.caller, "network")
  /\ UNCHANGED <<backendVars, collectionDate, collectionTime, envVars>>

\* getInventoryByProductId resolved for item i: the two checks of
\* adjustInventoryAfterOrder, then updateInventoryQuantity is issued
InventoryRead ==
  /\ co.pc = "getDocs"
  /\ UNCHANGED <<backendVars, collectionDate, collectionTime, envVars>>
  /\ LET item == co.items[co.i]
         id == getInventoryByProductId(inventory, item.productId) IN
     IF id = 0
       THEN /\ co' = IdleFrame
            /\ Threw(co.caller, "No inventory found")
       ELSE IF insufficient(inventory[id].quantity, item.quantity)
         THEN /\ co' = IdleFrame
              /\ Threw(co.caller, "Insufficient stock")
         ELSE /\ co' = [co EXCEPT !.pc = "runTransaction", !.inventoryId = id,
                          !.newQuantity = adjustedQuantity(inventory[id].quantity,
                                                           item.quantity)]
              /\ UNCHANGED <<cartVars, alert, loading, error>>

\* getInventoryByProductId rejected
InventoryReadFailed ==
  /\ co.pc = "getDocs"
  /\ co' = IdleFrame
  /\ Threw(co.caller, "network")
  /\ UNCHANGED <<backendVars, collectionDate, collectionTime, envVars>>

\* the transaction of updateInventoryQuantity committed: it throws when the
\* inventory document is gone and otherwise writes quantity and inStock
\* together; then the loop goes on to the next item or createOrder returns
\* docRef.id
InventoryUpdated ==
  /\ co.pc = "runTransaction"
  /\ UNCHANGED <<orders, collectionDate, collectionTime, envVars>>
  /\ LET id == co.inventoryId
         productId == inventory[id].productId IN
     IF ~inventory[id].exists
       THEN /\ co' = IdleFrame
            /\ Threw(co.caller, "Inventory item does not exist")
            /\ UNCHANGED <<inventory, products>>
       ELSE IF ~products[productId].exists
       THEN /\ co' = IdleFrame
            /\ Threw(co.caller, "not-found")
            /\ UNCHANGED <<inventory, products>>
       ELSE /\ inventory' = [inventory EXCEPT ![id].quantity = co.newQuantity]
            /\ products' = [products EXCEPT ![productId].inStock = inStockOf(co.newQuantity)]
            /\ IF co.i < Len(co.items)
                 THEN /\ co' = [co EXCEPT !.pc = "getDocs", !.i = co.i + 1]
                      /\ UNCHANGED <<cartVars, alert, loading, error>>
                 ELSE /\ co' = IdleFrame
                      /\ Returned(co.caller)

\* the transaction did not commit (the network, or a product document that no
\* longer exists): nothing is written
InventoryUpdateFailed ==
  /\ co.pc = "runTransaction"
  /\ co' = IdleFrame
  /\ Threw(co.caller, "network")
  /\ UNCHANGED <<backendVars, collectionDate, collectionTime, envVars>>


\* ------------------------------------------------------------ Checkout screen
\* times of day the time picker hands to handleTimeChange: <<hours, minutes>>
TimeInputs == {<<9, 5>>, <<13, 5>>}

\* the string handleTimeChange builds, as <<hours, minute digits, AM/PM>>
formatTime(selectedTime) ==
  LET hours == selectedTime[1]
      minutes == selectedTime[2]
      ampm == IF hours >= 12 THEN "PM" ELSE "AM"
      formattedHours == IF hours % 12 = 0 THEN 12 ELSE hours % 12
      formattedMinutes == IF minutes < 10 THEN <<0, minutes>>
                          ELSE <<minutes \div 10, minutes % 10>>
  IN <<formattedHours, formattedMinutes, ampm>>

\* the run goes on until the backend holds MaxOrders orders and no placement
\* is in flight
Running == ~(Len(orders) >= MaxOrders /\ co.pc = "idle")

\* Alert.alert opens a modal dialog: the screens take no input until it is closed
NoAlertOpen == alert = "none"

\* the user closes the dialog; the error handlePlaceOrder caught is gone with it
DismissAlert ==
  /\ alert # "none"
  /\ alert' = "none"
  /\ error' = "none"
  /\ clearCalls' = 0
  /\ UNCHANGED <<cartItems, totalItems, totalAmount, lastCall, checkoutVars,
                 envVars, backendVars, co>>

HandleDateChange ==
  \E selectedDate \in 0..MaxTime :
    /\ Running /\ NoAlertOpen
    /\ collectionDate' = selectedDate
    /\ UNCHANGED <<cartVars, collectionTime, loading, alert, envVars,
                   backendVars, co, error>>

HandleTimeChange ==
  \E selectedTime \in TimeInputs :
    /\ Running /\ NoAlertOpen
    /\ collectionTime' = formatTime(selectedTime)
    /\ UNCHANGED <<cartVars, collectionDate, loading, alert, envVars,
                   backendVars, co, error>>

\* a validateOrder that looks at the schedule before the cart
validateOrderDateFirst ==
  IF collectionDate = NoDate THEN "Missing Information: date"
  ELSE IF collectionTime = NoTime THEN "Missing Information: time"
  ELSE IF collectionDate < now THEN "Invalid Date"
  ELSE IF Len(cartItems) = 0 THEN "Empty Cart"
  ELSE "ok"

\* validateOrder: "ok" for true, else the alert it shows before returning false
validateOrder ==
  IF Len(cartItems) = 0 THEN "Empty Cart"
  ELSE IF collectionDate = NoDate THEN "Missing Information: date"
  ELSE IF collectionTime = NoTime THEN "Missing Information: time"
  ELSE IF collectionDate < now THEN "Invalid Date"
  ELSE "ok"

\* a Place Order button that stays enabled while loading
placeOrderNeverDisabled == FALSE

\* the Place Order button: disabled={loading}, and Button passes
\* disabled={disabled || loading} to TouchableOpacity
placeOrderDisabled == loading

\* handlePlaceOrder up to its await. The Place Order button is disabled while
\* loading; the screen shows it for a cart with lines, and validateOrder
\* provides for the handler running on an empty cart, so that case is driven
\* as well
HandlePlaceOrder ==
  /\ NoAlertOpen
  /\ ~placeOrderDisabled
  /\ Len(orders) < MaxOrders
  /\ UNCHANGED <<collectionDate, collectionTime, envVars, backendVars>>
  /\ IF validateOrder # "ok"
       THEN /\ alert' = validateOrder
            /\ UNCHANGED <<cartVars, loading, co, error>>
       ELSE IF currentUser = NoUser \/ collectionDate = NoDate
         THEN UNCHANGED <<cartVars, loading, alert, co, error>>
         ELSE createOrder("checkout", currentUser, orderItemsOf(cartItems),
                          totalAmount, collectionDate, collectionTime)

\* largest quantity the product detail screen lets the user choose
MaxDetailQuantity == 10

MathMin(a, b) == IF a <= b THEN a ELSE b

\* handleAddToCart of the product screens: quantity 1 from the lists, the
\* chosen quantity from the detail screen, whose button is disabled while
\* offline; out-of-stock products are refused
HandleAddToCart ==
  \E product \in Listed, quantity \in 1..MathMin(MaxDetailQuantity, MaxQty) :
    LET newItems == addToCart(cartItems, product, quantity) IN
    /\ Running /\ NoAlertOpen
    /\ product.inStock
    /\ quantity = 1 \/ ~isOffline
    /\ QtyInBounds(newItems)
    /\ Render(newItems)
    /\ UNCHANGED <<lastCall, checkoutVars, alert, envVars, backendVars, co,
                   error, clearCalls>>

\* the -/+ buttons of a cart line
HandleQuantityChange ==
  \E productId \in ProductIds, change \in {0 - 1, 1} :
    LET index == findIndex(cartItems, productId) IN
    /\ Running /\ NoAlertOpen
    /\ index > 0
    /\ LET newQuantity == MathMax(1, cartItems[index].quantity + change) IN
       /\ newQuantity <= MaxQty
       /\ Render(updateQuantity(cartItems, productId, newQuantity))
    /\ UNCHANGED <<lastCall, checkoutVars, alert, envVars, backendVars, co,
                   error, clearCalls>>

\* the Remove button of the confirmation dialog of handleRemoveItem
HandleRemoveItem ==
  \E productId \in ProductIds :
    /\ Running /\ NoAlertOpen
    /\ Render(removeFromCart(cartItems, productId))
    /\ UNCHANGED <<lastCall, checkoutVars, alert, envVars, backendVars, co,
                   error, clearCalls>>

\* ------------------------------------------------------------- environment
Tick ==
  /\ Running
  /\ now < MaxTime
  /\ now' = now + 1
  /\ UNCHANGED <<cartVars, checkoutVars, alert, isOffline, currentUser,
                 serviceCall, adminVars, netVars, clients, sideVars,
                 backendVars, co, error>>

\* JS truthiness of a boolean | null
Truthy(v) == v = "true"

\* the NetInfo listener of AuthProvider
NetInfoEvent ==
  \E isConnected \in {"true", "false", "null"},
     isInternetReachable \in {"true", "false", "null"} :
    /\ Running
    /\ isOffline' = ~(Truthy(isConnected) /\ Truthy(isInternetReachable))
    /\ UNCHANGED <<cartVars, checkoutVars, alert, now, currentUser,
                   serviceCall, adminVars, netVars, clients, sideVars,
                   backendVars, co, error>>

\* -------------------------------------------- orders placed by other clients
\* the cart lines a client places
ClientItems ==
  { [productId |-> "p1", productName |-> "Knife", quantity |-> 1, price |-> 100],
    [productId |-> "p1", productName |-> "Knife", quantity |-> MaxQty, price |-> 100],
    [productId |-> "p2", productName |-> "Fork", quantity |-> 1, price |-> 30] }

\* carts of one line, and of a knife line followed by a fork line
ClientItemLists ==
  {<<a>> : a \in ClientItems}
    \cup {<<a, b>> : a \in {x \in ClientItems : x.productId = "p1"},
                     b \in {x \in ClientItems : x.productId = "p2"}}

ClientUnchanged ==
  UNCHANGED <<cartVars, checkoutVars, alert, co, error, now, isOffline,
              currentUser, serviceCall, adminVars, netVars, sideVars>>

\* createOrder of client c, called with the total of its cart: the total check
\* passes and addDoc is awaited
ClientPlacesOrder ==
  \E c \in ClientIds, items \in ClientItemLists :
    /\ clients[c].pc = "idle"
    /\ ~totalMismatch(calculatedTotal(items), calculatedTotal(items))
    /\ clients' = [clients EXCEPT ![c] = [ClientIdle EXCEPT !.pc = "addDoc",
                                                          !.items = items]]
    /\ UNCHANGED backendVars
    /\ ClientUnchanged

\* addDoc of client c resolved; adjustInventoryAfterOrder starts
ClientOrderPersisted ==
  \E c \in ClientIds :
    /\ clients[c].pc = "addDoc"
    /\ orders' = addDoc(orders,
                        orderData([IdleFrame EXCEPT
                                     !.userId = c,
                                     !.items = clients[c].items,
                                     !.totalAmount = calculatedTotal(clients[c].items),
                                     !.createdAt = now]))
    /\ clients' = [clients EXCEPT ![c].pc = "getDocs", ![c].i = 1]
    /\ UNCHANGED <<inventory, products>>
    /\ ClientUnchanged

\* getInventoryByProductId of client c resolved for item i: the two checks,
\* then updateInventoryQuantity is issued with the quantity computed here
ClientInventoryRead ==
  \E c \in ClientIds :
    LET item == clients[c].items[clients[c].i]
        id == getInventoryByProductId(inventory, item.productId) IN
    /\ clients[c].pc = "getDocs"
    /\ IF id = 0 \/ insufficient(inventory[id].quantity, item.quantity)
         THEN clients' = [clients EXCEPT ![c].pc = "threw"]
         ELSE clients' = [clients EXCEPT
                            ![c].pc = "runTransaction",
                            ![c].inventoryId = id,
                            ![c].newQuantity =
                              adjustedQuantity(inventory[id].quantity,
                                               item.quantity)]
    /\ UNCHANGED backendVars
    /\ ClientUnchanged

\* the transaction of updateInventoryQuantity of client c committed; the loop
\* goes on to the next item or createOrder returns
ClientInventoryUpdated ==
  \E c \in ClientIds :
    LET id == clients[c].inventoryId
        productId == inventory[id].productId IN
    /\ clients[c].pc = "runTransaction"
    /\ IF ~inventory[id].exists \/ ~products[productId].exists
         THEN /\ clients' = [clients EXCEPT ![c].pc = "threw"]
              /\ UNCHANGED <<inventory, products>>
         ELSE /\ inventory' = [inventory EXCEPT
                                 ![id].quantity = clients[c].newQuantity]
              /\ products' = [products EXCEPT ![productId].inStock =
                                inStockOf(clients[c].newQuantity)]
              /\ clients' = [clients EXCEPT
                               ![c].pc = IF clients[c].i < Len(clients[c].items)
                                           THEN "getDocs" ELSE "returned",
                               ![c].i = clients[c].i + 1]
    /\ UNCHANGED orders
    /\ ClientUnchanged

\* the call client c awaits rejected (the network): createOrder throws
ClientCallRejected ==
  \E c \in ClientIds :
    /\ clients[c].pc \in {"addDoc", "getDocs", "runTransaction"}
    /\ clients' = [clients EXCEPT ![c].pc = "threw"]
    /\ UNCHANGED backendVars
    /\ ClientUnchanged

\* ---------------------------------------------------------- admin: helpers
\* text typed into the quantity field of the Inventory form, as characters
QuantityTexts ==
  { <<>>, <<"a">>, <<"-", "1">>, <<"0">>, <<"1", ".", "5">>, <<" ", "2">> }

Digits == {"0", "1", "2"}
DigitValue(c) == IF c = "0" THEN 0 ELSE IF c = "1" THEN 1 ELSE 2

NaN == [nan |-> TRUE, value |-> 0]

RECURSIVE skipWhiteSpace(_)
skipWhiteSpace(s) ==
  IF s # <<>> /\ Head(s) = " " THEN skipWhiteSpace(Tail(s)) ELSE s

RECURSIVE leadingDigits(_)
leadingDigits(s) ==
  IF s = <<>> \/ Head(s) \notin Digits THEN <<>>
  ELSE <<Head(s)>> \o leadingDigits(Tail(s))

RECURSIVE digitsValue(_, _)
digitsValue(s, acc) ==
  IF s = <<>> THEN acc ELSE digitsValue(Tail(s), acc * 10 + DigitValue(Head(s)))

\* parseInt(string): leading white space is skipped, then an optional sign,
\* then the longest run of digits; NaN when there is no digit
parseInt(text) ==
  LET trimmed == skipWhiteSpace(text)
      negative == trimmed # <<>> /\ Head(trimmed) = "-"
      unsigned == IF trimmed # <<>> /\ Head(trimmed) \in {"-", "+"}
                    THEN Tail(trimmed) ELSE trimmed
      digits == leadingDigits(unsigned) IN
  IF digits = <<>> THEN NaN
  ELSE [nan |-> FALSE,
        value |-> IF negative THEN 0 - digitsValue(digits, 0)
                  ELSE digitsValue(digits, 0)]

\* a quantity check that rejects only NaN
validQuantityNaNOnly(quantity) == ~quantity.nan

\* handleSubmit: if (isNaN(quantity) || quantity < 0) reject
validQuantity(quantity) == ~(quantity.nan \/ quantity.value < 0)

\* an inventory document that was deleted (document ids are never reused)
DeletedDoc == [productId |-> "deleted", quantity |-> 0, exists |-> FALSE]

\* the id addDoc gives a new inventory document: one never used before
FreshInvIds == {id \in InvIds : inventory[id].productId = "none"}

\* the id addDoc gives a new product document
FreshProductIds == {p \in ProductIds : ~products[p].exists /\ ~products[p].deleted}

\* what an admin action leaves alone: the customer app and the order in flight
AppUnchanged ==
  UNCHANGED <<cartVars, checkoutVars, alert, co, error, orders, now, isOffline,
              currentUser, serviceCall, netVars, clients, sideVars>>

\* the screen is interactive: no call in flight (the screen shows <Loading />
\* while loading), no dialog open
AdminReady(a) == adm[a].pc = "idle" /\ adm[a].alert = "none"

\* the frame of a handler that ended with Alert.alert(title); the alerts on
\* the other admin's device are not tracked
Ended(a, title) ==
  [AdminIdle EXCEPT !.alert = IF a = "a1" THEN title ELSE "none"]

\* the handler of admin a returns early with an alert
AdminAlert(a, title) ==
  /\ adm' = [adm EXCEPT ![a] = Ended(a, title)]
  /\ UNCHANGED calls

\* the handler of admin a awaits its first service call
AdminCall(a, frame) ==
  /\ calls < MaxAdminCalls
  /\ calls' = calls + 1
  /\ adm' = [adm EXCEPT ![a] = frame]

\* the awaited call threw: catch shows the generic error alert
AdminThrew(a) ==
  /\ adm' = [adm EXCEPT ![a] = Ended(a, "Error")]
  /\ UNCHANGED calls

\* the handler ran to its end: reload, then the success alert
AdminReturned(a) ==
  /\ adm' = [adm EXCEPT ![a] = Ended(a, "Success")]
  /\ UNCHANGED calls

\* the next await of the same service function or handler
AdminStep(a, pc) ==
  /\ adm' = [adm EXCEPT ![a].pc = pc]
  /\ UNCHANGED calls

\* ------------------------------------------------- admin: Inventory screen
\* handleSubmit of the Inventory form, filled for an item of the cached list
\* (isEditing) or for a product picked from the cached list; the cached lists
\* can be out of date by any amount
InventoryHandleSubmit ==
  \E a \in AdminIds, text \in QuantityTexts :
    /\ AdminReady(a)
    /\ AppUnchanged
    /\ UNCHANGED <<inventory, products>>
    /\ IF text = <<>>
         THEN AdminAlert(a, "Error")
         ELSE LET quantity == parseInt(text) IN
              IF ~validQuantity(quantity)
                THEN AdminAlert(a, "Error")
                ELSE \/ \E id \in InvIds :
                          /\ inventory[id].productId # "none"
                          /\ AdminCall(a, [AdminIdle EXCEPT
                                             !.op = "updateInventoryQuantity",
                                             !.pc = "runTransaction",
                                             !.inventoryId = id,
                                             !.quantity = quantity.value])
                     \/ \E productId \in ProductIds :
                          AdminCall(a, [AdminIdle EXCEPT
                                          !.op = "addInventoryItem",
                                          !.pc = "getDoc",
                                          !.productId = productId,
                                          !.quantity = quantity.value])

\* handleDeleteInventory: the confirmation dialog opens
HandleDeleteInventory ==
  \E a \in AdminIds, id \in InvIds :
    /\ AdminReady(a)
    /\ inventory[id].productId # "none"
    /\ AdminCall(a, [AdminIdle EXCEPT !.op = "deleteInventoryItem",
                                      !.pc = "confirm", !.inventoryId = id])
    /\ AppUnchanged
    /\ UNCHANGED <<inventory, products>>

\* the Delete button of a confirmation dialog: onPress calls the service
ConfirmDelete ==
  \E a \in AdminIds :
    /\ adm[a].pc = "confirm"
    /\ AdminStep(a, IF adm[a].op = "deleteProduct" THEN "deleteDoc"
                    ELSE "runTransaction")
    /\ AppUnchanged
    /\ UNCHANGED <<inventory, products>>

\* the Cancel button of a confirmation dialog
CancelDelete ==
  \E a \in AdminIds :
    /\ adm[a].pc = "confirm"
    /\ adm' = [adm EXCEPT ![a] = AdminIdle]
    /\ UNCHANGED calls
    /\ AppUnchanged
    /\ UNCHANGED <<inventory, products>>

\* OK on the alert a handler ended with
AdminDismissAlert ==
  \E a \in AdminIds :
    /\ adm[a].alert # "none"
    /\ adm' = [adm EXCEPT ![a].alert = "none"]
    /\ UNCHANGED calls
    /\ AppUnchanged
    /\ UNCHANGED <<inventory, products>>

\* ------------------------------------------------- admin: inventory service
\* addInventoryItem: getDoc(productRef) resolved
AddInventoryProductRead ==
  \E a \in AdminIds :
    /\ adm[a].op = "addInventoryItem" /\ adm[a].pc = "getDoc"
    /\ IF ~products[adm[a].productId].exists
         THEN AdminThrew(a)
         ELSE AdminStep(a, "getDocs")
    /\ AppUnchanged
    /\ UNCHANGED <<inventory, products>>

\* addInventoryItem: getInventoryByProductId resolved
AddInventoryExistingRead ==
  \E a \in AdminIds :
    /\ adm[a].op = "addInventoryItem" /\ adm[a].pc = "getDocs"
    /\ IF getInventoryByProductId(inventory, adm[a].productId) # 0
         THEN AdminThrew(a)
         ELSE AdminStep(a, "addDoc")
    /\ AppUnchanged
    /\ UNCHANGED <<inventory, products>>

\* addInventoryItem: addDoc resolved, the inventory document is written
AddInventoryItemAdded ==
  \E a \in AdminIds, id \in FreshInvIds :
    /\ adm[a].op = "addInventoryItem" /\ adm[a].pc = "addDoc"
    /\ \A other \in FreshInvIds : id <= other
    /\ inventory' = [inventory EXCEPT
                       ![id] = InvDoc(adm[a].productId, adm[a].quantity)]
    /\ adm' = [adm EXCEPT ![a].pc = "updateDoc", ![a].inventoryId = id]
    /\ UNCHANGED <<calls, products>>
    /\ AppUnchanged

\* addInventoryItem: updateDoc(productRef, {inStock: quantity > 0}) resolved, or
\* rejected because the product document is gone; handleSubmit goes on
AddInventoryFlagUpdated ==
  \E a \in AdminIds :
    /\ adm[a].op = "addInventoryItem" /\ adm[a].pc = "updateDoc"
    /\ IF ~products[adm[a].productId].exists
         THEN AdminThrew(a) /\ UNCHANGED products
         ELSE /\ products' = [products EXCEPT ![adm[a].productId].inStock =
                                inStockOf(adm[a].quantity)]
              /\ AdminReturned(a)
    /\ UNCHANGED inventory
    /\ AppUnchanged

\* updateInventoryQuantity: the transaction committed (quantity and inStock
\* together), or threw because a document is gone
InventoryQuantityUpdated ==
  \E a \in AdminIds :
    LET id == adm[a].inventoryId
        productId == inventory[id].productId IN
    /\ adm[a].op = "updateInventoryQuantity" /\ adm[a].pc = "runTransaction"
    /\ IF ~inventory[id].exists \/ ~products[productId].exists
         THEN AdminThrew(a) /\ UNCHANGED <<inventory, products>>
         ELSE /\ inventory' = [inventory EXCEPT ![id].quantity = adm[a].quantity]
              /\ products' = [products EXCEPT ![productId].inStock =
                                inStockOf(adm[a].quantity)]
              /\ AdminStep(a, "updateLocation")
    /\ AppUnchanged

\* updateInventoryLocation: updateDoc resolved, or rejected because the
\* document is gone; handleSubmit goes on
InventoryLocationUpdated ==
  \E a \in AdminIds :
    /\ adm[a].op = "updateInventoryQuantity" /\ adm[a].pc = "updateLocation"
    /\ IF ~inventory[adm[a].inventoryId].exists
         THEN AdminThrew(a)
         ELSE AdminReturned(a)
    /\ AppUnchanged
    /\ UNCHANGED <<inventory, products>>

\* deleteInventoryItem: the transaction committed (delete and inStock: false
\* together), or threw because a document is gone
InventoryItemDeleted ==
  \E a \in AdminIds :
    LET id == adm[a].inventoryId
        productId == inventory[id].productId IN
    /\ adm[a].op = "deleteInventoryItem" /\ adm[a].pc = "runTransaction"
    /\ IF ~inventory[id].exists \/ ~products[productId].exists
         THEN AdminThrew(a) /\ UNCHANGED <<inventory, products>>
         ELSE /\ inventory' = [inventory EXCEPT ![id] = DeletedDoc]
              /\ products' = [products EXCEPT ![productId].inStock = FALSE]
              /\ AdminReturned(a)
    /\ AppUnchanged

\* the call an admin handler awaits rejected (the network): nothing is written
\* by this call
AdminCallRejected ==
  \E a \in AdminIds :
    /\ adm[a].pc \notin {"idle", "confirm"}
    /\ AdminThrew(a)
    /\ AppUnchanged
    /\ UNCHANGED <<inventory, products>>

\* -------------------------------------------------- admin: Products screen
\* handleSubmit of the product form on this device
ProductsHandleSubmit ==
  \E isEditing \in BOOLEAN, productId \in ProductIds, inStock \in BOOLEAN :
    /\ AdminReady("a1")
    /\ AppUnchanged
    /\ UNCHANGED <<inventory, products>>
    /\ IF isOffline
         THEN AdminAlert("a1", "Offline Mode")
         ELSE IF isEditing
           THEN /\ products[productId].exists \/ products[productId].deleted
                /\ AdminCall("a1", [AdminIdle EXCEPT !.op = "updateProduct",
                                      !.pc = "updateDoc",
                                      !.productId = productId,
                                      !.inStock = inStock])
           ELSE AdminCall("a1", [AdminIdle EXCEPT !.op = "addProduct",
                                   !.pc = "addDoc", !.inStock = inStock])

\* handleDeleteProduct: the offline check, then the confirmation dialog opens
HandleDeleteProduct ==
  \E productId \in ProductIds :
    /\ AdminReady("a1")
    /\ products[productId].exists \/ products[productId].deleted
    /\ AppUnchanged
    /\ UNCHANGED <<inventory, products>>
    /\ IF isOffline
         THEN AdminAlert("a1", "Offline Mode")
         ELSE AdminCall("a1", [AdminIdle EXCEPT !.op = "deleteProduct",
                                 !.pc = "confirm", !.productId = productId])

\* addProduct: addDoc resolved, the product document carries the form's inStock
ProductAdded ==
  \E productId \in FreshProductIds :
    /\ adm["a1"].op = "addProduct" /\ adm["a1"].pc = "addDoc"
    /\ products' = [products EXCEPT ![productId] = ProductDoc(adm["a1"].inStock)]
    /\ AdminReturned("a1")
    /\ UNCHANGED inventory
    /\ AppUnchanged

\* updateProduct: updateDoc resolved, or rejected because the document is gone
ProductUpdated ==
  /\ adm["a1"].op = "updateProduct" /\ adm["a1"].pc = "updateDoc"
  /\ IF ~products[adm["a1"].productId].exists
       THEN AdminThrew("a1") /\ UNCHANGED products
       ELSE /\ products' = [products EXCEPT ![adm["a1"].productId].inStock =
                              adm["a1"].inStock]
            /\ AdminReturned("a1")
  /\ UNCHANGED inventory
  /\ AppUnchanged

\* deleteProduct: deleteDoc resolved, only the product document is deleted
ProductDeleted ==
  /\ adm["a1"].op = "deleteProduct" /\ adm["a1"].pc = "deleteDoc"
  /\ products' = [products EXCEPT ![adm["a1"].productId] = DeletedProductDoc]
  /\ AdminReturned("a1")
  /\ UNCHANGED inventory
  /\ AppUnchanged

\* --------------------------------------------------- admin: Profile screen
\* handleSaveProfile on this device
HandleSaveProfile ==
  /\ AdminReady("a1")
  /\ currentUser # NoUser
  /\ AppUnchanged
  /\ UNCHANGED <<inventory, products>>
  /\ IF isOffline
       THEN AdminAlert("a1", "Offline Mode")
       ELSE AdminCall("a1", [AdminIdle EXCEPT !.op = "updateUserProfile",
                               !.pc = "updateDoc"])

\* updateUserProfile: updateDoc(userRef, updates) resolved
ProfileUpdated ==
  /\ adm["a1"].op = "updateUserProfile" /\ adm["a1"].pc = "updateDoc"
  /\ AdminReturned("a1")
  /\ AppUnchanged
  /\ UNCHANGED <<inventory, products>>

\* ------------------------------------------------------------- AuthProvider
\* the identities Firebase Auth reports (user.uid, user.email and
\* user.displayName, "null" when the account has none)
NoIdentity == [uid |-> "none", email |-> "null", displayName |-> "null"]

Identities ==
  [uid : {"u1"}, email : {"null", "u1@mail"}, displayName : {"null", "Una"}]

\* the result of getDoc(userDocRef): the read rejected, or a snapshot of the
\* document of 'users' (exists() false when there is none)
Rejected ==
  [rejected |-> TRUE, exists |-> FALSE, role |-> "none", email |-> "null",
   displayName |-> "null"]

NoUserDoc ==
  [rejected |-> FALSE, exists |-> FALSE, role |-> "none", email |-> "null",
   displayName |-> "null"]

UserDocs ==
  {NoUserDoc,
   [rejected |-> FALSE, exists |-> TRUE, role |-> "admin",
    email |-> "doc@mail", displayName |-> "Doc"],
   [rejected |-> FALSE, exists |-> TRUE, role |-> "customer",
    email |-> "null", displayName |-> "null"]}

\* currentUser === null
NoAuthUser == [id |-> "none", email |-> "", displayName |-> "", role |-> "none"]

\* a || b of JS on strings ("null" for null and undefined)
JsOr(a, b) == IF a \in {"null", ""} THEN b ELSE a

\* the basic user info getUserWithFallback falls back to
fallbackUser(user) ==
  [id |-> user.uid,
   email |-> JsOr(user.email, ""),
   displayName |-> JsOr(user.displayName, ""),
   role |-> "customer"]

\* getUserWithFallback with no catch around getDoc
getUserWithFallbackRethrows(user, snapshot) ==
  IF snapshot.rejected THEN [threw |-> TRUE, value |-> NoAuthUser]
  ELSE IF snapshot.exists
    THEN [threw |-> FALSE,
          value |-> [id |-> user.uid,
                     email |-> JsOr(user.email, JsOr(snapshot.email, "")),
                     displayName |-> JsOr(user.displayName,
                                          JsOr(snapshot.displayName, "")),
                     role |-> snapshot.role]]
    ELSE [threw |-> FALSE, value |-> fallbackUser(user)]

\* getUserWithFallback(user), given what getDoc gives: whether it threw and
\* the user it returned
getUserWithFallback(user, snapshot) ==
  IF ~snapshot.rejected /\ snapshot.exists
    THEN [threw |-> FALSE,
          value |-> [id |-> user.uid,
                     email |-> JsOr(user.email, JsOr(snapshot.email, "")),
                     displayName |-> JsOr(user.displayName,
                                          JsOr(snapshot.displayName, "")),
                     role |-> snapshot.role]]
    ELSE [threw |-> FALSE, value |-> fallbackUser(user)]

\* { ...prev, ...userData }
spread(prev, userData) ==
  [f \in DOMAIN prev \cup DOMAIN userData |->
     IF f \in DOMAIN userData THEN userData[f] ELSE prev[f]]

\* AuthProvider after construction: its state hooks, auth.currentUser of
\* Firebase (identity) and the identity's document of 'users' (userDoc); the
\* observer callback awaiting getUserWithFallback (observer), the
\* refreshUserData calls awaiting it (refreshing), and how the last read of
\* each ended (observerRead, refreshRead)
AuthInit ==
  [currentUser |-> NoAuthUser, loading |-> TRUE, authError |-> "none",
   identity |-> NoIdentity, userDoc |-> NoUserDoc, observer |-> "idle",
   refreshing |-> 0, observerRead |-> "none", refreshRead |-> "none"]

\* the screens that read products or the profile
ScreenIds == {"Category", "ProductDetail", "Profile"}

\* a screen: whether it is open, its error state (error / loadError), the
\* reads it awaits, and whether the device was offline when the read that
\* set the error failed
ScreenClosed ==
  [mounted |-> FALSE, error |-> FALSE, reading |-> 0, failedOffline |-> FALSE]

ScreensInit == [sc \in ScreenIds |-> ScreenClosed]

\* what AuthProvider and the screens leave alone
AuthUnchanged ==
  UNCHANGED <<cartVars, checkoutVars, alert, co, error, backendVars, now,
              currentUser, serviceCall, adminVars, clients, ordersScreen,
              statusLog>>

\* the outcomes of a read of the identity's document
Snapshots(a) == {Rejected, a.userDoc}

readOutcome(snapshot) == IF snapshot.rejected THEN "failed" ELSE "ok"

\* the back-online effect (deps [isOffline, loading]) calls refreshUserData,
\* and refreshUserData starts its read (auth.currentUser is set)
refreshStarts(a, offlineBefore, offlineAfter, loadingBefore, loadingAfter) ==
  /\ offlineBefore # offlineAfter \/ loadingBefore # loadingAfter
  /\ ~offlineAfter
  /\ a.currentUser # NoAuthUser
  /\ ~loadingAfter
  /\ a.identity # NoIdentity

\* loadProducts / loadUserData of a screen starts: the error is cleared and
\* the read is awaited
loadStarted(screen) ==
  [screen EXCEPT !.error = FALSE, !.failedOffline = FALSE,
                 !.reading = screen.reading + 1]

\* the callback of onAuthStateChanged: setAuthError(null) and, for a user, the
\* call of getUserWithFallback; for no user setCurrentUser(null) and
\* setLoading(false)
AuthStateChanged ==
  \E user \in Identities \cup {NoIdentity}, userDoc \in UserDocs :
    /\ auth.identity = NoIdentity
    /\ auth.observer = "idle"
    /\ user = NoIdentity => userDoc = NoUserDoc
    /\ auth' = IF user = NoIdentity
                 THEN [auth EXCEPT !.authError = "none",
                                   !.currentUser = NoAuthUser,
                                   !.loading = FALSE]
                 ELSE [auth EXCEPT !.authError = "none",
                                   !.identity = user,
                                   !.userDoc = userDoc,
                                   !.observer = "getDoc"]
    /\ UNCHANGED <<isOffline, netVars, screens>>
    /\ AuthUnchanged

\* the callback after `await getUserWithFallback(user)`: setCurrentUser (with
\* authError and the minimal user if it threw), setLoading(false), and the
\* back-online effect of the render that follows
ObserverProfileRead ==
  \E snapshot \in Snapshots(auth) :
    LET result == getUserWithFallback(auth.identity, snapshot)
        after == [auth EXCEPT
                    !.observer = "idle",
                    !.observerRead = readOutcome(snapshot),
                    !.currentUser = IF result.threw
                                      THEN fallbackUser(auth.identity)
                                      ELSE result.value,
                    !.authError =
                      IF result.threw
                        THEN "Authentication error. Please try again later."
                        ELSE auth.authError,
                    !.loading = FALSE]
        starts == refreshStarts(after, isOffline, isOffline, auth.loading,
                                FALSE)
    IN
    /\ auth.observer = "getDoc"
    /\ starts => auth.refreshing < MaxRefreshes
    /\ auth' = IF starts THEN [after EXCEPT !.refreshing = auth.refreshing + 1]
               ELSE after
    /\ UNCHANGED <<isOffline, netVars, screens>>
    /\ AuthUnchanged

\* refreshUserData after `await getUserWithFallback(auth.currentUser)`:
\* setCurrentUser(prev => !prev ? userData : {...prev, ...userData}), nothing
\* if it threw; Profile reloads when currentUser changed
RefreshProfileRead ==
  \E snapshot \in Snapshots(auth) :
    LET result == getUserWithFallback(auth.identity, snapshot)
        reloads == ~result.threw /\ screens["Profile"].mounted
    IN
    /\ auth.refreshing > 0
    /\ reloads => screens["Profile"].reading < MaxReads
    /\ auth' = [auth EXCEPT
                  !.refreshing = auth.refreshing - 1,
                  !.refreshRead = readOutcome(snapshot),
                  !.currentUser =
                    IF result.threw THEN auth.currentUser
                    ELSE IF auth.currentUser = NoAuthUser THEN result.value
                    ELSE spread(auth.currentUser, result.value)]
    /\ screens' = IF reloads
                    THEN [screens EXCEPT
                            !["Profile"] = loadStarted(screens["Profile"])]
                    ELSE screens
    /\ UNCHANGED <<isOffline, netVars>>
    /\ AuthUnchanged

\* ------------------------------------------------ screens that read data
\* the reload effect of Category and of Profile (deps [isConnected]):
\* if (isConnected && error) load again; ProductDetail has no such effect
reloadsOnConnected(sc, screen, connectedBefore, connectedAfter) ==
  /\ sc \in {"Category", "Profile"}
  /\ screen.mounted
  /\ connectedBefore # connectedAfter
  /\ connectedAfter
  /\ screen.error

\* a screen is opened: its mount effect loads
OpenScreen ==
  \E sc \in ScreenIds :
    /\ ~screens[sc].mounted
    /\ auth.currentUser # NoAuthUser
    /\ ~auth.loading
    /\ screens' = [screens EXCEPT
                     ![sc] = [loadStarted(screens[sc]) EXCEPT !.mounted = TRUE]]
    /\ UNCHANGED <<isOffline, netVars, auth>>
    /\ AuthUnchanged

\* the read of a screen resolved: the data is set
ScreenReadResolved ==
  \E sc \in ScreenIds :
    /\ screens[sc].reading > 0
    /\ screens' = [screens EXCEPT ![sc].reading = screens[sc].reading - 1]
    /\ UNCHANGED <<isOffline, netVars, auth>>
    /\ AuthUnchanged

\* the read of a screen rejected: setError / setLoadError
ScreenReadRejected ==
  \E sc \in ScreenIds :
    /\ screens[sc].reading > 0
    /\ screens' = [screens EXCEPT ![sc].reading = screens[sc].reading - 1,
                                  ![sc].error = TRUE,
                                  ![sc].failedOffline = isOffline]
    /\ UNCHANGED <<isOffline, netVars, auth>>
    /\ AuthUnchanged

\* ------------------------------------------------- connectivity listeners
\* AuthProvider: !(state.isConnected && state.isInternetReachable)
offlineOf(isConnected, isInternetReachable) ==
  ~(Truthy(isConnected) /\ Truthy(isInternetReachable))

\* NetInfoProvider: state.isConnected ?? false
connectedOf(isConnected) == Truthy(isConnected)

\* firebaseConfig: !(state.isConnected)
firestoreOfflineOf(isConnected) == ~Truthy(isConnected)

\* one NetInfo event, delivered to the listeners of AuthProvider,
\* NetInfoProvider and firebaseConfig, and the effects of the render that
\* follows: the back-online effect of AuthProvider and the reload effects of
\* the open screens
NetInfoListenersOn(isConnected, isInternetReachable) ==
  LET offline == offlineOf(isConnected, isInternetReachable)
      connected == connectedOf(isConnected)
      starts == refreshStarts(auth, isOffline, offline, auth.loading,
                              auth.loading)
      reloads == {sc \in ScreenIds :
                    reloadsOnConnected(sc, screens[sc], netInfoConnected,
                                       connected)}
  IN
  /\ starts => auth.refreshing < MaxRefreshes
  /\ \A sc \in reloads : screens[sc].reading < MaxReads
  /\ isOffline' = offline
  /\ netInfoConnected' = connected
  /\ wasOffline' = firestoreOfflineOf(isConnected)
  /\ auth' = IF starts THEN [auth EXCEPT !.refreshing = auth.refreshing + 1]
             ELSE auth
  /\ screens' = [sc \in ScreenIds |->
                  IF sc \in reloads THEN loadStarted(screens[sc])
                  ELSE screens[sc]]
  /\ UNCHANGED <<cartVars, checkoutVars, alert, now, currentUser,
                 serviceCall, adminVars, clients, ordersScreen, statusLog,
                 backendVars, co, error>>

\* the values NetInfo reports for isConnected and isInternetReachable
NetInfoValues == {"true", "false", "null"}

NetInfoListeners ==
  \E isConnected \in NetInfoValues, isInternetReachable \in NetInfoValues :
    NetInfoListenersOn(isConnected, isInternetReachable)

\* ------------------------------------------------------ admin Orders screen
\* OrderStatusLabels: the statuses the screen offers
OrderStatuses == {"pending", "processing", "shipped", "delivered", "cancelled"}

\* the Orders screen of an admin: the status the order has in its list
\* (orders, "none" before loadOrders), selectedOrder (its status, "none" when
\* null), the confirmation dialog or update in flight (pc, newStatus),
\* statusUpdateLoading and the open alert
OrdersScreenIdle ==
  [listed |-> "none", selectedOrder |-> "none", pc |-> "idle",
   newStatus |-> "none", statusUpdateLoading |-> FALSE, alert |-> "none"]

\* what the Orders screen leaves alone
OrdersUnchanged ==
  UNCHANGED <<cartVars, checkoutVars, alert, co, error, inventory, products,
              now, isOffline, currentUser, serviceCall, adminVars, netVars,
              clients, auth, screens>>

\* the order the screens show
ShownOrder == 1

\* the screen of admin a takes presses: no dialog or alert is open
OrdersScreenReady(a) ==
  /\ ordersScreen[a].pc # "confirm"
  /\ ordersScreen[a].alert = "none"

\* loadOrders resolved: setOrders(ordersData)
LoadOrders ==
  \E a \in AdminIds :
    /\ OrdersScreenReady(a)
    /\ Len(orders) >= ShownOrder
    /\ ordersScreen' = [ordersScreen EXCEPT
                          ![a].listed = orders[ShownOrder].status]
    /\ UNCHANGED <<orders, statusLog>>
    /\ OrdersUnchanged

\* handleViewOrderDetails(order): the order as the list holds it
HandleViewOrderDetails ==
  \E a \in AdminIds :
    /\ OrdersScreenReady(a)
    /\ ordersScreen[a].listed # "none"
    /\ ordersScreen[a].selectedOrder = "none"
    /\ ordersScreen' = [ordersScreen EXCEPT
                          ![a].selectedOrder = ordersScreen[a].listed]
    /\ UNCHANGED <<orders, statusLog>>
    /\ OrdersUnchanged

\* the close button of the details modal: setSelectedOrder(null)
CloseOrderDetails ==
  \E a \in AdminIds :
    /\ OrdersScreenReady(a)
    /\ ordersScreen[a].selectedOrder # "none"
    /\ ordersScreen' = [ordersScreen EXCEPT ![a].selectedOrder = "none"]
    /\ UNCHANGED <<orders, statusLog>>
    /\ OrdersUnchanged

\* the status buttons the modal renders: none while statusUpdateLoading, else
\* every status but the selected order's and, for a delivered order, cancelled
statusButtons(screen) ==
  IF screen.statusUpdateLoading THEN {}
  ELSE {status \in OrderStatuses :
          ~(status = screen.selectedOrder
            \/ (status = "cancelled" /\ screen.selectedOrder = "delivered"))}

\* handleUpdateStatus(selectedOrder.id, status): the confirmation dialog
HandleUpdateStatus ==
  \E a \in AdminIds, newStatus \in OrderStatuses :
    /\ OrdersScreenReady(a)
    /\ ordersScreen[a].selectedOrder # "none"
    /\ newStatus \in statusButtons(ordersScreen[a])
    /\ Len(statusLog) < MaxStatusUpdates
    /\ ordersScreen' = [ordersScreen EXCEPT ![a].pc = "confirm",
                                            ![a].newStatus = newStatus]
    /\ UNCHANGED <<orders, statusLog>>
    /\ OrdersUnchanged

\* 'Update' of the dialog: setStatusUpdateLoading(true) and the call of
\* updateOrderStatus
ConfirmUpdateStatus ==
  \E a \in AdminIds :
    /\ ordersScreen[a].pc = "confirm"
    /\ ordersScreen' = [ordersScreen EXCEPT ![a].pc = "updateDoc",
                                            ![a].statusUpdateLoading = TRUE]
    /\ UNCHANGED <<orders, statusLog>>
    /\ OrdersUnchanged

\* 'Cancel' of the dialog
CancelUpdateStatus ==
  \E a \in AdminIds :
    /\ ordersScreen[a].pc = "confirm"
    /\ ordersScreen' = [ordersScreen EXCEPT ![a].pc = "idle",
                                            ![a].newStatus = "none"]
    /\ UNCHANGED <<orders, statusLog>>
    /\ OrdersUnchanged

\* updateOrderStatus resolved: updateDoc wrote {status, updatedAt}; the
\* handler updates selectedOrder and the list and shows 'Success'
OrderStatusUpdated ==
  \E a \in AdminIds :
    LET newStatus == ordersScreen[a].newStatus IN
    /\ ordersScreen[a].pc = "updateDoc"
    /\ Len(statusLog) < MaxStatusUpdates
    /\ orders' = [orders EXCEPT ![ShownOrder].status = newStatus,
                                ![ShownOrder].updatedAt = now]
    /\ statusLog' = Append(statusLog,
                           [from |-> orders[ShownOrder].status,
                            to |-> newStatus])
    /\ ordersScreen' =
         [ordersScreen EXCEPT
            ![a].pc = "idle",
            ![a].newStatus = "none",
            ![a].selectedOrder =
              IF ordersScreen[a].selectedOrder # "none" THEN newStatus
              ELSE "none",
            ![a].listed = newStatus,
            ![a].alert = "Success",
            ![a].statusUpdateLoading = FALSE]
    /\ OrdersUnchanged

\* updateOrderStatus rejected: the 'Error' alert
OrderStatusUpdateFailed ==
  \E a \in AdminIds :
    /\ ordersScreen[a].pc = "updateDoc"
    /\ ordersScreen' = [ordersScreen EXCEPT ![a].pc = "idle",
                                            ![a].newStatus = "none",
                                            ![a].alert = "Error",
                                            ![a].statusUpdateLoading = FALSE]
    /\ UNCHANGED <<orders, statusLog>>
    /\ OrdersUnchanged

\* OK of the alert the handler ended with
OrdersDismissAlert ==
  \E a \in AdminIds :
    /\ ordersScreen[a].alert # "none"
    /\ ordersScreen' = [ordersScreen EXCEPT ![a].alert = "none"]
    /\ UNCHANGED <<orders, statusLog>>
    /\ OrdersUnchanged

\* ------------------------------------------------------------ specifications
InitApp ==
  /\ cartItems = <<>>
  /\ totalItems = 0
  /\ totalAmount = 0
  /\ lastCall = NoCall
  /\ collectionDate = NoDate
  /\ collectionTime = NoTime
  /\ loading = FALSE
  /\ alert = "none"
  /\ now = 0
  /\ isOffline = FALSE
  /\ currentUser = "u1"
  /\ orders = <<>>
  /\ co = IdleFrame
  /\ error = "none"
  /\ clearCalls = 0
  /\ serviceCall = NoServiceCall
  /\ adm = [a \in AdminIds |-> AdminIdle]
  /\ calls = 0
  /\ netInfoConnected = TRUE
  /\ wasOffline = FALSE
  /\ clients = [c \in ClientIds |-> ClientIdle]
  /\ ordersScreen = [a \in AdminIds |-> OrdersScreenIdle]
  /\ statusLog = <<>>
  /\ auth = AuthInit
  /\ screens = ScreensInit

\* backend contents the app can find: each product has no inventory document
\* (stock -1) or one with some quantity (p1: any, p2: MaxStock), and its
\* inStock flag agrees
InitBackend ==
  \E stock \in [ProductIds -> (0 - 1)..MaxStock] :
    /\ stock["p2"] \in {0 - 1, MaxStock}
    /\ inventory = [id \in InvIds |->
                      IF \E p \in ProductIds : InvIdOf(p) = id /\ stock[p] >= 0
                        THEN LET p == CHOOSE q \in ProductIds : InvIdOf(q) = id IN
                             InvDoc(p, stock[p])
                        ELSE NoDoc]
    /\ products = [p \in ProductIds |-> ProductDoc(stock[p] > 0)]

Init == InitApp /\ InitBackend

Next ==
  \/ HandleAddToCart
  \/ HandleQuantityChange
  \/ HandleRemoveItem
  \/ HandleDateChange
  \/ HandleTimeChange
  \/ HandlePlaceOrder
  \/ OrderPersisted
  \/ OrderPersistFailed
  \/ InventoryRead
  \/ InventoryReadFailed
  \/ InventoryUpdated
  \/ InventoryUpdateFailed
  \/ DismissAlert
  \/ Tick
  \/ NetInfoEvent

Spec == Init /\ [][Next]_vars

\* the cart store driven through its four operations with any arguments
InitCart ==
  /\ InitApp
  /\ inventory = [id \in InvIds |-> NoDoc]
  /\ products = [p \in ProductIds |-> ProductDoc(FALSE)]

NextCart == AddToCart \/ RemoveFromCart \/ UpdateQuantity \/ ClearCart

SpecCart == InitCart /\ [][NextCart]_vars


\* the order service called directly, with any items and any supplied total
ServiceItems ==
  { [productId |-> "p1", productName |-> "Knife", quantity |-> 2, price |-> 100],
    [productId |-> "p2", productName |-> "Fork", quantity |-> 1, price |-> 30] }

ServiceItemLists ==
  {<<>>} \cup {<<a>> : a \in ServiceItems}
         \cup {<<a, b>> : a \in ServiceItems, b \in ServiceItems}

CallCreateOrder ==
  \E items \in ServiceItemLists, delta \in (0 - 2)..2 :
    LET total == calculatedTotal(items) + delta IN
    /\ co.pc = "idle"
    /\ Len(orders) < MaxOrders
    /\ total >= 0
    /\ serviceCall' = [items |-> items, totalAmount |-> total]
    /\ createOrder("direct", "u1", items, total, NoDate, NoTime)
    /\ UNCHANGED <<checkoutVars, now, isOffline, currentUser, adminVars,
                   netVars, clients, sideVars, backendVars>>

NextService ==
  \/ CallCreateOrder
  \/ OrderPersisted
  \/ OrderPersistFailed
  \/ InventoryRead
  \/ InventoryReadFailed
  \/ InventoryUpdated
  \/ InventoryUpdateFailed

SpecService == Init /\ [][NextService]_vars

\* a customer's device places an order for one line of the catalogue with the
\* total its cart computed
CustomerPlacesOrder ==
  \E item \in ServiceItems :
    /\ co.pc = "idle"
    /\ Len(orders) < MaxOrders
    /\ createOrder("direct", "u1", <<item>>, calculatedTotal(<<item>>),
                   NoDate, NoTime)
    /\ UNCHANGED <<checkoutVars, envVars, backendVars>>

\* the admin screens of two admins, the order service and the connectivity
\* listeners, over a backend where p2 may not have been created yet
InitAdminBackend ==
  \E stock \in [ProductIds -> (0 - 1)..MaxStock], created \in BOOLEAN :
    /\ stock["p2"] \in {0 - 1, MaxStock}
    /\ ~created => stock["p2"] = 0 - 1
    /\ inventory = [id \in InvIds |->
                      IF \E p \in ProductIds : InvIdOf(p) = id /\ stock[p] >= 0
                        THEN LET p == CHOOSE q \in ProductIds : InvIdOf(q) = id IN
                             InvDoc(p, stock[p])
                        ELSE NoDoc]
    /\ products = [p \in ProductIds |->
                     IF p = "p2" /\ ~created THEN NoProductDoc
                     ELSE ProductDoc(stock[p] > 0)]

InitAdmin == InitApp /\ InitAdminBackend

NextAdmin ==
  \/ InventoryHandleSubmit
  \/ HandleDeleteInventory
  \/ ConfirmDelete
  \/ CancelDelete
  \/ AdminDismissAlert
  \/ AddInventoryProductRead
  \/ AddInventoryExistingRead
  \/ AddInventoryItemAdded
  \/ AddInventoryFlagUpdated
  \/ InventoryQuantityUpdated
  \/ InventoryLocationUpdated
  \/ InventoryItemDeleted
  \/ AdminCallRejected
  \/ ProductsHandleSubmit
  \/ HandleDeleteProduct
  \/ ProductAdded
  \/ ProductUpdated
  \/ ProductDeleted
  \/ HandleSaveProfile
  \/ ProfileUpdated
  \/ NetInfoListeners

SpecAdmin == InitAdmin /\ [][NextAdmin]_vars

\* several clients place orders against a stock of MaxStock per product
InitClients ==
  /\ InitApp
  /\ inventory = [id \in InvIds |->
                    IF \E p \in ProductIds : InvIdOf(p) = id
                      THEN InvDoc(CHOOSE p \in ProductIds : InvIdOf(p) = id,
                                  MaxStock)
                      ELSE NoDoc]
  /\ products = [p \in ProductIds |-> ProductDoc(MaxStock > 0)]

NextClients ==
  \/ ClientPlacesOrder
  \/ ClientOrderPersisted
  \/ ClientInventoryRead
  \/ ClientInventoryUpdated
  \/ ClientCallRejected

SpecClients == InitClients /\ [][NextClients]_vars

\* the Inventory screens of two admins while customers place orders
NextStock ==
  \/ InventoryHandleSubmit
  \/ HandleDeleteInventory
  \/ ConfirmDelete
  \/ CancelDelete
  \/ AdminDismissAlert
  \/ AddInventoryProductRead
  \/ AddInventoryExistingRead
  \/ AddInventoryItemAdded
  \/ AddInventoryFlagUpdated
  \/ InventoryQuantityUpdated
  \/ InventoryLocationUpdated
  \/ InventoryItemDeleted
  \/ AdminCallRejected
  \/ CustomerPlacesOrder
  \/ OrderPersisted
  \/ OrderPersistFailed
  \/ InventoryRead
  \/ InventoryReadFailed
  \/ InventoryUpdated
  \/ InventoryUpdateFailed

SpecStock == InitAdmin /\ [][NextStock]_vars

\* the Orders screens of two admins over the order a customer places
NextOrders ==
  \/ CustomerPlacesOrder
  \/ OrderPersisted
  \/ OrderPersistFailed
  \/ InventoryRead
  \/ InventoryReadFailed
  \/ InventoryUpdated
  \/ InventoryUpdateFailed
  \/ LoadOrders
  \/ HandleViewOrderDetails
  \/ CloseOrderDetails
  \/ HandleUpdateStatus
  \/ ConfirmUpdateStatus
  \/ CancelUpdateStatus
  \/ OrderStatusUpdated
  \/ OrderStatusUpdateFailed
  \/ OrdersDismissAlert

SpecOrders == InitClients /\ [][NextOrders]_vars

\* AuthProvider from the launch of the app, the connectivity listeners and
\* the screens that read products and the profile
NextAuth ==
  \/ AuthStateChanged
  \/ ObserverProfileRead
  \/ RefreshProfileRead
  \/ NetInfoListeners
  \/ OpenScreen
  \/ ScreenReadResolved
  \/ ScreenReadRejected

SpecAuth == InitClients /\ [][NextAuth]_vars


\* ===================================================================== claims
RECURSIVE SumQuantities(_)
SumQuantities(lines) ==
  IF lines = <<>> THEN 0
  ELSE Head(lines).quantity + SumQuantities(Tail(lines))

RECURSIVE SumAmounts(_)
SumAmounts(lines) ==
  IF lines = <<>> THEN 0
  ELSE Head(lines).price * Head(lines).quantity + SumAmounts(Tail(lines))

LinesOf(lines, productId) ==
  {i \in 1..Len(lines) : lines[i].productId = productId}

\* the cart lines as handlePlaceOrder snapshots them
Snapshot(lines) ==
  [k \in 1..Len(lines) |->
     [productId |-> lines[k].productId, productName |-> lines[k].productName,
      quantity |-> lines[k].quantity, price |-> lines[k].price]]

SuccessAlert == "Order Placed Successfully"

RejectAlerts ==
  {"Empty Cart", "Missing Information: date", "Missing Information: time",
   "Invalid Date"}

\* C1: a checkout attempt snapshots the cart lines when placement begins, the
\* snapshot does not change while the attempt is in flight, and when the
\* attempt succeeds exactly one order has been added since it began: the last
\* one, with status pending, the snapshot as its items and the sum of
\* price * quantity over the snapshot as its totalAmount.
C1_OneOrderPerSuccess ==
  [][/\ (co.pc = "idle" /\ co'.pc = "addDoc") =>
          /\ co'.items = Snapshot(cartItems)
          /\ co'.ordersAtCall = Len(orders)
     /\ (co.pc # "idle" /\ co'.pc # "idle") =>
          /\ co'.items = co.items
          /\ co'.ordersAtCall = co.ordersAtCall
     /\ (alert # SuccessAlert /\ alert' = SuccessAlert) =>
          /\ co.pc # "idle"
          /\ Len(orders') = co.ordersAtCall + 1
          /\ orders'[Len(orders')].status = "pending"
          /\ orders'[Len(orders')].items = co.items
          /\ orders'[Len(orders')].totalAmount = SumAmounts(co.items)
          /\ orders'[Len(orders')].userId = currentUser
    ]_vars

\* a two-line cart (2 knives, 1 fork) was ordered successfully
C1_Witness ==
  /\ alert = SuccessAlert
  /\ Len(orders) = 1
  /\ Len(orders[1].items) = 2
  /\ orders[1].totalAmount = 230
  /\ orders[1].status = "pending"

\* C2: when a placement succeeds, for every item of the order the inventory
\* quantity of the item's product is its quantity when the placement began
\* minus the ordered quantity, and the product's inStock flag is
\* (new quantity > 0).
C2_InventoryDecremented ==
  [][(alert # SuccessAlert /\ alert' = SuccessAlert) =>
       \A k \in 1..Len(co.items) :
         LET p == co.items[k].productId
             before == co.inventoryAtCall[InvIdOf(p)]
             after == inventory'[InvIdOf(p)] IN
         /\ before.exists /\ before.productId = p
         /\ after.exists /\ after.productId = p
         /\ after.quantity = before.quantity - co.items[k].quantity
         /\ products'[p].inStock = (after.quantity > 0)
    ]_vars

\* an order that took the last two knives: quantity 0, flag false
C2_Witness ==
  /\ alert = SuccessAlert
  /\ Len(orders) = 1
  /\ \E k \in 1..Len(orders[1].items) :
       /\ orders[1].items[k].productId = "p1"
       /\ orders[1].items[k].quantity = 2
  /\ inventory[InvIdOf("p1")].exists
  /\ inventory[InvIdOf("p1")].quantity = 0
  /\ ~products["p1"].inStock

\* C3: in a checkout attempt clearCart is called at most once, and only on the
\* step on which createOrder returns (the order persisted and every item's
\* inventory adjusted); the cart is then empty. No attempt that is rejected or
\* that fails calls clearCart, and its alert leaves the cart lines as they were.
C3_ClearOnlyAfterSuccess ==
  [][/\ (co.pc = "idle" /\ co'.pc = "addDoc") => clearCalls' = 0
     /\ clearCalls' > clearCalls =>
          /\ clearCalls = 0 /\ clearCalls' = 1
          /\ co.pc = "runTransaction" /\ co.i = Len(co.items)
          /\ co'.pc = "idle"
          /\ error' = "none"
          /\ Len(orders') = co.ordersAtCall + 1
          /\ alert' = SuccessAlert
          /\ cartItems' = <<>>
     /\ (alert # SuccessAlert /\ alert' = SuccessAlert) =>
          /\ clearCalls' = 1
          /\ cartItems' = <<>>
     /\ (alert = "none" /\ alert' \in RejectAlerts \cup {"Error"}) =>
          /\ clearCalls' = 0
          /\ cartItems' = cartItems
    ]_vars

\* a successful attempt: one clearCart call, the cart empty
C3_Witness ==
  /\ alert = SuccessAlert
  /\ clearCalls = 1
  /\ cartItems = <<>>
  /\ totalItems = 0
  /\ Len(orders) = 1
  /\ ~loading

\* the inventory records of a product
RecordsOf(inv, productId) ==
  {id \in InvIds : inv[id].exists /\ inv[id].productId = productId}

\* C4: when the item the inventory adjustment of a checkout attempt has come
\* to asks for more than its product's inventory record holds, or the product
\* has no inventory record, the adjustment ends with an error: no inventory
\* quantity changes, the failure is reported (the Error alert), clearCart is
\* not called and the cart lines stay as they are.
C4_InsufficientStockAborts ==
  [][(/\ co.pc = "getDocs"
      /\ co' # co
      /\ LET item == co.items[co.i] IN
         \/ RecordsOf(inventory, item.productId) = {}
         \/ \E id \in RecordsOf(inventory, item.productId) :
              inventory[id].quantity < item.quantity) =>
       /\ co'.pc = "idle"
       /\ error' \in {"No inventory found", "Insufficient stock", "network"}
       /\ inventory' = inventory
       /\ products' = products
       /\ alert' = "Error"
       /\ ~loading'
       /\ clearCalls' = clearCalls
       /\ cartItems' = cartItems
    ]_vars

\* two knives were asked for with one in stock: the attempt failed, the stock
\* is still one and the cart still holds its line
C4_Witness ==
  /\ alert = "Error"
  /\ error = "Insufficient stock"
  /\ Len(cartItems) = 1
  /\ cartItems[1].productId = "p1"
  /\ cartItems[1].quantity = 2
  /\ inventory[InvIdOf("p1")].exists
  /\ inventory[InvIdOf("p1")].quantity = 1
  /\ clearCalls = 0

\* C5: while the device is offline no placement starts: handlePlaceOrder does
\* not reach createOrder (so no order is persisted and no inventory is read
\* or written for it) and the cart is unchanged.
C5_OfflineBlocksPlacement ==
  [][(isOffline /\ co.pc = "idle") =>
       /\ co'.pc = "idle"
       /\ orders' = orders
       /\ inventory' = inventory
    ]_vars

\* C6: createOrder called with a total that differs from the sum of
\* price * quantity over the items by more than 0.01 throws the total-mismatch
\* error: no order is persisted and no inventory quantity or product flag
\* changes; so no persisted order has such a total.
C6_TotalMismatchRejected ==
  /\ [][(/\ co.pc = "idle"
         /\ co' # co \/ error' # error \/ serviceCall' # serviceCall
         /\ MathAbs(SumAmounts(serviceCall'.items) - serviceCall'.totalAmount)
              > Tolerance) =>
          /\ error' = "Order total mismatch"
          /\ co'.pc = "idle"
          /\ orders' = orders
          /\ inventory' = inventory
          /\ products' = products
       ]_vars
  /\ [](\A k \in 1..Len(orders) :
          MathAbs(SumAmounts(orders[k].items) - orders[k].totalAmount)
            <= Tolerance)

\* createOrder was called with a total 0.02 above the sum of its items
C6_Witness ==
  /\ error = "Order total mismatch"
  /\ serviceCall.items # <<>>
  /\ serviceCall.totalAmount = SumAmounts(serviceCall.items) + 2
  /\ orders = <<>>
  /\ co.pc = "idle"

\* C7: handlePlaceOrder on an empty cart shows the Empty Cart alert and does
\* nothing else: createOrder is not called, no order is persisted and no
\* inventory changes. No step from an empty cart starts createOrder.
C7_EmptyCartRejected ==
  [][/\ (HandlePlaceOrder /\ cartItems = <<>>) =>
          /\ alert' = "Empty Cart"
          /\ co' = co
          /\ UNCHANGED <<orders, inventory, products, cartItems, loading>>
     /\ (cartItems = <<>> /\ co.pc = "idle") => co'.pc = "idle"
    ]_vars

\* the empty cart was rejected although the schedule was complete and valid
C7_Witness ==
  /\ alert = "Empty Cart"
  /\ cartItems = <<>>
  /\ collectionDate # NoDate
  /\ collectionTime # NoTime
  /\ collectionDate >= now
  /\ orders = <<>>
  /\ co.pc = "idle"

\* the morning of the day of a clock value
dayStart(t) == t - (t % 2)

\* the half of the day a formatted collection time lies in
halfOf(time) == IF time[3] = "PM" THEN 1 ELSE 0

\* the slot the customer chose: the day of collectionDate at collectionTime
pickupSlot == dayStart(collectionDate) + halfOf(collectionTime)

\* C8: the checkout workflow calls createOrder only if a collection date and
\* a collection time are chosen and the chosen slot (that date at that time)
\* is not earlier than the current time; an attempt rejected for its schedule
\* persists no order, changes no inventory and leaves the cart as it was.
C8_ScheduleChosenAndNotPast ==
  [][/\ (co.pc = "idle" /\ co'.pc = "addDoc") =>
          /\ collectionDate # NoDate
          /\ collectionTime # NoTime
          /\ pickupSlot >= now
     /\ (alert = "none" /\ alert' \in RejectAlerts \ {"Empty Cart"}) =>
          /\ co' = co
          /\ UNCHANGED <<orders, inventory, products, cartItems>>
    ]_vars

\* C9: after any sequence of addToCart, removeFromCart, updateQuantity and
\* clearCart, the totalItems read is the sum of the quantities of the current
\* cart lines and the totalAmount read is the sum of price * quantity over the
\* current cart lines.
C9_TotalsAreFresh ==
  /\ totalItems = SumQuantities(cartItems)
  /\ totalAmount = SumAmounts(cartItems)

\* a two-line cart whose quantities were just changed by updateQuantity
C9_Witness ==
  /\ Len(cartItems) = 2
  /\ lastCall.op = "updateQuantity"
  /\ lastCall.existingItemIndex > 0
  /\ cartItems[lastCall.existingItemIndex].quantity = 2
  /\ totalItems = 3
  /\ totalAmount = 230

\* C10: addToCart(p, q) for a product that has a line leaves exactly one line
\* for p, with the quantity raised by q and the name, image and price of the
\* first add; for a product without a line it appends one line with quantity q
\* and the product's name, image and price. So addToCart(p, q1) followed by
\* addToCart(p, q2) gives one line of quantity q1 + q2 with the first snapshot.
C10_AddMergesIntoOneLine ==
  [][lastCall'.op = "addToCart" =>
       LET p == lastCall'.productId
           q == lastCall'.quantity
           old == LinesOf(cartItems, p)
           new == LinesOf(cartItems', p) IN
       /\ Cardinality(new) = 1
       /\ IF old # {}
            THEN /\ Len(cartItems') = Len(cartItems)
                 /\ \A i \in old :
                      /\ cartItems'[i].quantity = cartItems[i].quantity + q
                      /\ cartItems'[i].productName = cartItems[i].productName
                      /\ cartItems'[i].productImage = cartItems[i].productImage
                      /\ cartItems'[i].price = cartItems[i].price
            ELSE /\ Len(cartItems') = Len(cartItems) + 1
                 /\ cartItems'[Len(cartItems')] =
                      [productId |-> p,
                       productName |-> lastCall'.product.name,
                       productImage |-> lastCall'.product.imageUrl,
                       quantity |-> q,
                       price |-> lastCall'.product.price]
       /\ \A i \in 1..Len(cartItems) : i \notin old => cartItems'[i] = cartItems[i]
    ]_vars

\* p1 added with quantity 1, then added again with quantity 1 as it reads
\* after an edit: one line of quantity 2 that kept the first name and price
C10_Witness ==
  /\ lastCall.op = "addToCart"
  /\ lastCall.quantity = 1
  /\ lastCall.existingItemIndex = 1
  /\ Len(cartItems) = 1
  /\ cartItems[1].quantity = 2
  /\ cartItems[1].price # lastCall.product.price
  /\ cartItems[1].productName # lastCall.product.name

\* C11: after any sequence of addToCart, removeFromCart, updateQuantity and
\* clearCart, no two cart lines have the same productId.
C11_OneLinePerProduct ==
  \A i, j \in 1..Len(cartItems) :
    cartItems[i].productId = cartItems[j].productId => i = j

\* both products in the cart, the last call an addToCart of one already there
C11_Witness ==
  /\ Len(cartItems) = 2
  /\ cartItems[1].productId # cartItems[2].productId
  /\ lastCall.op = "addToCart"
  /\ lastCall.existingItemIndex = 2

\* C12: after any sequence of addToCart, removeFromCart, updateQuantity and
\* clearCart called with any integer quantity arguments, every cart line has
\* quantity >= 1.
C12_QuantitiesAtLeastOne ==
  \A i \in 1..Len(cartItems) : cartItems[i].quantity >= 1

\* C13: updateQuantity(productId, q) for a productId that has a line sets
\* that line's quantity to max(1, q), for every integer q, and leaves the
\* line's name, image and price and every other line unchanged.
C13_UpdateQuantityClamps ==
  [][(lastCall'.op = "updateQuantity" /\ LinesOf(cartItems, lastCall'.productId) # {}) =>
       LET p == lastCall'.productId
           q == lastCall'.quantity IN
       /\ Len(cartItems') = Len(cartItems)
       /\ \A i \in 1..Len(cartItems) :
            IF cartItems[i].productId = p
              THEN /\ cartItems'[i].quantity = (IF q >= 1 THEN q ELSE 1)
                   /\ cartItems'[i].productId = p
                   /\ cartItems'[i].productName = cartItems[i].productName
                   /\ cartItems'[i].productImage = cartItems[i].productImage
                   /\ cartItems'[i].price = cartItems[i].price
              ELSE cartItems'[i] = cartItems[i]
    ]_vars

\* updateQuantity with a negative quantity on the first of two lines
C13_Witness ==
  /\ lastCall.op = "updateQuantity"
  /\ lastCall.quantity < 0
  /\ lastCall.existingItemIndex = 1
  /\ Len(cartItems) = 2
  /\ cartItems[1].quantity = 1
  /\ cartItems[2].quantity = 2

\* C14: removeFromCart(productId) and updateQuantity(productId, q) for a
\* productId without a line leave the cart exactly as it was; removeFromCart
\* for a productId with a line removes that line and keeps the others, in
\* order.
C14_AbsentIsNoOp ==
  [][/\ (/\ lastCall'.op \in {"removeFromCart", "updateQuantity"}
         /\ LinesOf(cartItems, lastCall'.productId) = {}) =>
          cartItems' = cartItems
     /\ (/\ lastCall'.op = "removeFromCart"
         /\ LinesOf(cartItems, lastCall'.productId) # {}) =>
          /\ LinesOf(cartItems', lastCall'.productId) = {}
          /\ Len(cartItems') = Len(cartItems) - Cardinality(LinesOf(cartItems, lastCall'.productId))
          /\ \A i \in 1..Len(cartItems) :
               cartItems[i].productId # lastCall'.productId =>
                 \E j \in 1..Len(cartItems') :
                   /\ cartItems'[j] = cartItems[i]
                   /\ j = i - Cardinality({k \in LinesOf(cartItems, lastCall'.productId) : k < i})
    ]_vars

\* removeFromCart of p2 while only p1 has a line: the line is still there
C14_Witness ==
  /\ lastCall.op = "removeFromCart"
  /\ lastCall.productId = "p2"
  /\ lastCall.existingItemIndex = 0
  /\ Len(cartItems) = 1
  /\ cartItems[1].productId = "p1"
  /\ cartItems[1].quantity = 2

\* C15: immediately after an inventory mutation completes, the product's inStock
\* flag matches the inventory: after addInventoryItem with quantity q (the call
\* ends, by returning or by throwing, with its inventory document written) it is
\* (q > 0), after the write of updateInventoryQuantity(id, n) it is (n > 0), and
\* after the write of deleteInventoryItem it is false
C15_FlagMatchesAfterMutation ==
  [][\A a \in AdminIds :
       LET f == adm[a] IN
       /\ (/\ f.op = "addInventoryItem"
           /\ f.inventoryId # 0
           /\ adm'[a].pc = "idle"
           /\ products'[f.productId].exists)
          => products'[f.productId].inStock = (f.quantity > 0)
       /\ (/\ f.op = "updateInventoryQuantity"
           /\ f.pc = "runTransaction"
           /\ adm'[a].pc = "updateLocation")
          => products'[inventory[f.inventoryId].productId].inStock
               = (f.quantity > 0)
       /\ (/\ f.op = "deleteInventoryItem"
           /\ f.pc = "runTransaction"
           /\ inventory[f.inventoryId].exists
           /\ ~inventory'[f.inventoryId].exists)
          => products'[inventory[f.inventoryId].productId].inStock = FALSE
    ]_vars

\* C16: on this device no product, inventory or profile mutation is sent to the
\* backend (a handler or the Delete button of its confirmation dialog starts
\* awaiting a service call) in a state where isOffline is true, and a handler
\* started while isOffline is true ends with the "Offline Mode" alert
C16_NoMutationIssuedOffline ==
  [][
      /\ (/\ adm["a1"].pc \in {"idle", "confirm"}
          /\ adm'["a1"].pc \notin {"idle", "confirm"})
         => ~isOffline
      /\ (/\ isOffline
          /\ AdminReady("a1")
          /\ adm'["a1"] # adm["a1"])
         => adm'["a1"].alert = "Offline Mode"
    ]_vars

\* C17: in every reachable state at most one inventory item exists per
\* productId, under any interleaving of addInventoryItem calls
C17_OneItemPerProduct ==
  \A productId \in ProductIds : Cardinality(RecordsOf(inventory, productId)) <= 1

\* C18: in every reachable state, under any interleaving of order placements
\* and of the edits admins make through the Inventory screen, every inventory
\* item's quantity is an integer >= 0
C18_QuantitiesNonNegative ==
  \A id \in InvIds :
    inventory[id].exists =>
      inventory[id].quantity \in Int /\ inventory[id].quantity >= 0

\* an order's inventory adjustment is about to be written, computed from a
\* quantity an admin has since edited to less than the order asks for
C18_Witness ==
  /\ co.pc = "runTransaction"
  /\ inventory[co.inventoryId].exists
  /\ inventory[co.inventoryId].quantity # co.inventoryAtCall[co.inventoryId].quantity
  /\ inventory[co.inventoryId].quantity < co.items[co.i].quantity

\* C19: after every connectivity event the offline signal of the gated
\* operations (isOffline) is NOT(connected AND reachable) of the event's values,
\* a null value counting as false, and the signal the offline banner and the
\* reloading screens use (NetInfoProvider's isConnected) says the same
C19_OneOfflineSignal ==
  [][\A connected \in NetInfoValues, reachable \in NetInfoValues :
       NetInfoListenersOn(connected, reachable) =>
         /\ isOffline' = ~(connected = "true" /\ reachable = "true")
         /\ netInfoConnected' = ~isOffline'
    ]_vars

\* no admin handler, confirmation dialog or order is in flight
NoOperationInFlight ==
  /\ \A a \in AdminIds : adm[a].pc = "idle"
  /\ co.pc = "idle"

\* C20: in every reachable state with no operation in flight, each product's
\* inStock flag is true if and only if an inventory item for that product
\* exists with quantity > 0
C20_InStockIffStocked ==
  NoOperationInFlight =>
    \A productId \in ProductIds :
      products[productId].exists =>
        (products[productId].inStock <=>
           \E id \in RecordsOf(inventory, productId) : inventory[id].quantity > 0)

\* C21: within createOrder no inventory is read or adjusted before the order
\* record is persisted, and when the inventory adjustment then fails for an
\* item the order record stays persisted with status pending although
\* createOrder throws to its caller
C21_OrderPersistedBeforeAdjustment ==
  [][/\ co'.pc \in {"getDocs", "runTransaction"} =>
          /\ co'.orderId = co'.ordersAtCall + 1
          /\ Len(orders') >= co'.orderId
          /\ orders'[co'.orderId] = orderData(co')
     /\ inventory' # inventory =>
          /\ co.pc = "runTransaction"
          /\ Len(orders) >= co.orderId
          /\ orders[co.orderId] = orderData(co)
     /\ (co.pc \in {"getDocs", "runTransaction"} /\ co'.pc = "idle"
          /\ error' # "none") =>
          /\ orders' = orders
          /\ orders'[co.orderId].status = "pending"
          /\ orders'[co.orderId].items = co.items
    ]_vars

\* createOrder threw for insufficient stock and its order is in the collection
C21_Witness ==
  /\ co.pc = "idle"
  /\ error \in {"Insufficient stock", "No inventory found"}
  /\ Len(orders) = 1
  /\ orders[1].status = "pending"
  /\ orders[1].items = serviceCall.items

\* the quantity the first n items of a list ask of a product
RECURSIVE OrderedOf(_, _, _)
OrderedOf(items, n, productId) ==
  IF n = 0 THEN 0
  ELSE OrderedOf(items, n - 1, productId)
       + (IF items[n].productId = productId THEN items[n].quantity ELSE 0)

\* C22: adjustInventoryAfterOrder handles the items in list order, one at a
\* time, and stops at the first failing item k: each product's inventory is
\* then its quantity at the call minus what the items before k asked of it
\* (no rollback), so item k and the later items have not changed any quantity
C22_StopsAtFirstFailure ==
  [][/\ (co.pc = "addDoc" /\ co'.pc = "getDocs") => co'.i = 1
     /\ (co.pc = "getDocs" /\ co'.pc = "runTransaction") =>
          /\ co'.i = co.i
          /\ inventory[co'.inventoryId].productId = co.items[co.i].productId
     /\ (co.pc = "runTransaction" /\ co'.pc = "getDocs") => co'.i = co.i + 1
     /\ (co.pc \in {"getDocs", "runTransaction"} /\ co'.pc = "idle"
          /\ error' # "none") =>
          \A id \in InvIds :
            /\ inventory'[id].exists = co.inventoryAtCall[id].exists
            /\ inventory'[id].exists =>
                 inventory'[id].quantity =
                   co.inventoryAtCall[id].quantity
                     - OrderedOf(co.items, co.i - 1, inventory'[id].productId)
    ]_vars

\* the fork of the first line was taken from stock and the second line, two
\* knives with one in stock, failed: the fork stays taken, the knife untouched
C22_Witness ==
  /\ co.pc = "idle"
  /\ error = "Insufficient stock"
  /\ Len(serviceCall.items) = 2
  /\ serviceCall.items[1].productId = "p2"
  /\ serviceCall.items[2].productId = "p1"
  /\ inventory[InvIdOf("p2")].quantity = MaxStock - 1
  /\ inventory[InvIdOf("p1")].quantity = 1

\* C23: the items and totalAmount of a persisted order are the cart lines and
\* total as they were when placement began: the snapshot taken then is what
\* is persisted, whatever addToCart, updateQuantity, removeFromCart or
\* clearCart do while the placement is in flight, and no later step changes
\* the items or totalAmount of an order already persisted
C23_OrderKeepsSnapshot ==
  [][/\ (co.pc = "idle" /\ co'.pc = "addDoc" /\ co'.caller = "checkout") =>
          /\ co'.items = Snapshot(cartItems)
          /\ co'.totalAmount = totalAmount
     /\ (co.pc # "idle" /\ co'.pc # "idle") =>
          /\ co'.items = co.items
          /\ co'.totalAmount = co.totalAmount
     /\ Len(orders') > Len(orders) =>
          /\ orders'[Len(orders')].items = co.items
          /\ orders'[Len(orders')].totalAmount = co.totalAmount
     /\ \A k \in 1..Len(orders) :
          /\ Len(orders') >= k
          /\ orders'[k].items = orders[k].items
          /\ orders'[k].totalAmount = orders[k].totalAmount
    ]_vars

\* an order is persisted and its placement still in flight while the cart,
\* changed since the snapshot, holds other lines than the order
C23_Witness ==
  /\ Len(orders) = 1
  /\ co.pc \in {"getDocs", "runTransaction"}
  /\ cartItems # <<>>
  /\ Snapshot(cartItems) # orders[1].items
  /\ totalAmount # orders[1].totalAmount

C28_ClearedLinesWereOrdered ==
  [][(clearCalls' > clearCalls /\ alert' = SuccessAlert) =>
       \A i \in 1..Len(cartItems) :
         \E k \in 1..Len(co.items) :
           /\ co.items[k].productId = cartItems[i].productId
           /\ co.items[k].quantity = cartItems[i].quantity
    ]_vars

\* the items of client c whose adjustment succeeded: those before item i
AdjustedItems(c) ==
  IF clients[c].i = 0 THEN 0 ELSE clients[c].i - 1

\* the quantity of a product taken by the successful adjustments of a set of
\* clients
RECURSIVE TakenBy(_, _)
TakenBy(cs, productId) ==
  IF cs = {} THEN 0
  ELSE LET c == CHOOSE x \in cs : TRUE IN
       OrderedOf(clients[c].items, AdjustedItems(c), productId)
         + TakenBy(cs \ {c}, productId)

\* C24: for any interleaving of the placements of several clients, once all
\* adjustments have finished each product's inventory quantity is its initial
\* quantity minus the quantities of all order items whose adjustment succeeded
C24_NoLostDecrement ==
  (\A c \in ClientIds : clients[c].pc \in {"idle", "returned", "threw"}) =>
    \A productId \in ProductIds :
      inventory[InvIdOf(productId)].quantity
        = MaxStock - TakenBy(ClientIds, productId)

\* C29: over any sequence of admin status updates of an order, no update
\* writes the status the order already has, and once an update has made the
\* order delivered no later update makes it cancelled
C29_DeliveredStaysUncancelled ==
  /\ \A i \in 1..Len(statusLog) : statusLog[i].to # statusLog[i].from
  /\ \A i \in 1..Len(statusLog), j \in 1..Len(statusLog) :
       (i < j /\ statusLog[i].to = "delivered")
         => statusLog[j].to # "cancelled"

\* C25: when the profile read of the auth observer fails for an authenticated
\* user, getUserWithFallback does not throw, the current user is a non-null
\* user with the identity's id, email and display name, loading is false and
\* no auth error is set
C25_FallbackOnFailedRead ==
  [][
    (/\ auth.observer = "getDoc"
     /\ auth'.observer = "idle"
     /\ auth'.observerRead = "failed")
      => /\ ~getUserWithFallback(auth.identity, Rejected).threw
         /\ auth'.currentUser # NoAuthUser
         /\ auth'.currentUser.id = auth.identity.uid
         /\ auth'.currentUser.email = JsOr(auth.identity.email, "")
         /\ auth'.currentUser.displayName = JsOr(auth.identity.displayName, "")
         /\ ~auth'.loading
         /\ auth'.authError = "none"
  ]_vars

\* the observer's read failed for an identity that has no email, and the app
\* shows a signed-in user
C25_Witness ==
  /\ auth.observerRead = "failed"
  /\ auth.observer = "idle"
  /\ auth.identity.email = "null"
  /\ auth.currentUser.id = auth.identity.uid
  /\ auth.currentUser.email = ""
  /\ ~auth.loading

\* C26: when the offline signal goes from true to false with a user signed in
\* and the auth context not loading, refreshUserData starts a read; and every
\* open screen whose last read failed while offline issues that read again
C26_BackOnlineRefetches ==
  [][
    (isOffline /\ ~isOffline')
      => /\ (auth.currentUser # NoAuthUser /\ ~auth.loading)
              => auth'.refreshing = auth.refreshing + 1
         /\ \A sc \in ScreenIds :
              (screens[sc].mounted /\ screens[sc].error
               /\ screens[sc].failedOffline)
                => screens'[sc].reading = screens[sc].reading + 1
  ]_vars

\* C30: a refreshUserData whose read failed leaves the current user's role as
\* it was
C30_FailedRefreshKeepsRole ==
  [][
    (/\ auth'.refreshing < auth.refreshing
     /\ auth'.refreshRead = "failed")
      => auth'.currentUser.role = auth.currentUser.role
  ]_vars

====
